---------------------------- MODULE Spec2Model ----------------------------
(***************************************************************************)
(* The system-information acquisition layer of about-this-linux            *)
(* (src/src/system_info.rs).                                               *)
(*                                                                         *)
(* A Rust String is a sequence of one-character strings, so that trim,     *)
(* split, find, starts_with, contains and slicing are computed as the      *)
(* code computes them.  The host (what every external command prints or    *)
(* whether it can be spawned, what every file holds or whether it can be   *)
(* read, the environment) is the variable `host`; a detector call appends  *)
(* what it returned, and the sources it consulted in order, to `calls`.    *)
(***************************************************************************)
EXTENDS Integers, Sequences, FiniteSets

VARIABLES host, calls

vars == <<host, calls>>

(* How many detector calls one behaviour makes on the same host. *)
MaxCalls == 2

(***************************************************************************)
(* str: the string operations the code uses                                *)
(***************************************************************************)
WS == {" ", "\t", "\n", "\r"}

RECURSIVE TrimStart(_)
TrimStart(s) ==
    IF s # <<>> /\ Head(s) \in WS THEN TrimStart(Tail(s)) ELSE s

RECURSIVE TrimEnd(_)
TrimEnd(s) ==
    IF s # <<>> /\ s[Len(s)] \in WS THEN TrimEnd(SubSeq(s, 1, Len(s) - 1)) ELSE s

Trim(s) == TrimEnd(TrimStart(s))

(* str::find(char): 1-based index of the first occurrence, 0 for None *)
Find(s, c) ==
    IF \E i \in 1..Len(s) : s[i] = c
    THEN CHOOSE i \in 1..Len(s) : s[i] = c /\ \A j \in 1..(i - 1) : s[j] # c
    ELSE 0

StartsWith(s, p) == Len(s) >= Len(p) /\ SubSeq(s, 1, Len(p)) = p

(* str::find(&str): 1-based index of the first occurrence, 0 for None *)
MinOrZero(hits) == IF hits = {} THEN 0 ELSE CHOOSE i \in hits : \A j \in hits : i <= j

FindSub(s, sub) ==
    MinOrZero({i \in 1..(Len(s) - Len(sub) + 1) : SubSeq(s, i, i + Len(sub) - 1) = sub})

Contains(s, sub) == FindSub(s, sub) # 0

(* str::split(char): n delimiters give n + 1 pieces *)
RECURSIVE Split(_, _)
SplitAt(s, c, p) ==
    IF p = 0 THEN <<s>>
    ELSE <<SubSeq(s, 1, p - 1)>> \o Split(SubSeq(s, p + 1, Len(s)), c)

Split(s, c) == SplitAt(s, c, Find(s, c))

(* str::lines(): split on \n, a final empty piece is dropped, a trailing \r stripped *)
StripCR(l) == IF l # <<>> /\ l[Len(l)] = "\r" THEN SubSeq(l, 1, Len(l) - 1) ELSE l

LinesOf(ps) ==
    [i \in 1..(IF ps[Len(ps)] = <<>> THEN Len(ps) - 1 ELSE Len(ps)) |-> StripCR(ps[i])]

Lines(s) == LinesOf(Split(s, "\n"))

(* str::split_whitespace(): the maximal runs of non-whitespace *)
RECURSIVE SplitWhitespace(_)
(* the index after the first token of t, which starts with a non-whitespace character *)
TokenEnd(t) ==
    IF \E i \in 1..Len(t) : t[i] \in WS
    THEN CHOOSE i \in 1..Len(t) : t[i] \in WS /\ \A j \in 1..(i - 1) : t[j] \notin WS
    ELSE Len(t) + 1

TokensFrom(t, e) == <<SubSeq(t, 1, e - 1)>> \o SplitWhitespace(SubSeq(t, e, Len(t)))

TokensOfTrimmed(t) == IF t = <<>> THEN <<>> ELSE TokensFrom(t, TokenEnd(t))

SplitWhitespace(s) == TokensOfTrimmed(TrimStart(s))

(* [&str]::join(" ") *)
RECURSIVE JoinSp(_)
JoinSp(ps) ==
    IF ps = <<>> THEN <<>>
    ELSE IF Len(ps) = 1 THEN ps[1]
    ELSE ps[1] \o <<" ">> \o JoinSp(Tail(ps))

(* str::replace(char-pattern, ""): every occurrence of a character of cs removed *)
RECURSIVE Remove(_, _)
Remove(s, cs) ==
    IF s = <<>> THEN <<>>
    ELSE (IF Head(s) \in cs THEN <<>> ELSE <<Head(s)>>) \o Remove(Tail(s), cs)

UpperToLower ==
    [c \in {"A","B","C","D","E","F","G","H","I","J","K","L","M","N","O","P","Q","R","S","T","U","V","W","X","Y","Z"} |->
        CASE c = "A" -> "a" [] c = "B" -> "b" [] c = "C" -> "c" [] c = "D" -> "d"
          [] c = "E" -> "e" [] c = "F" -> "f" [] c = "G" -> "g" [] c = "H" -> "h"
          [] c = "I" -> "i" [] c = "J" -> "j" [] c = "K" -> "k" [] c = "L" -> "l"
          [] c = "M" -> "m" [] c = "N" -> "n" [] c = "O" -> "o" [] c = "P" -> "p"
          [] c = "Q" -> "q" [] c = "R" -> "r" [] c = "S" -> "s" [] c = "T" -> "t"
          [] c = "U" -> "u" [] c = "V" -> "v" [] c = "W" -> "w" [] c = "X" -> "x"
          [] c = "Y" -> "y" [] c = "Z" -> "z"]

(* str::to_lowercase() *)
ToLowercase(s) ==
    [i \in 1..Len(s) |-> IF s[i] \in DOMAIN UpperToLower THEN UpperToLower[s[i]] ELSE s[i]]

Digits == <<"0", "1", "2", "3", "4", "5", "6", "7", "8", "9">>

DigitSet == {Digits[i] : i \in 1..10}

DigitVal(c) == (CHOOSE i \in 1..10 : Digits[i] = c) - 1

(* Display of an unsigned integer *)
RECURSIVE ToDigits(_)
ToDigits(n) ==
    IF n < 10 THEN <<Digits[n + 1]>> ELSE ToDigits(n \div 10) \o <<Digits[(n % 10) + 1]>>

(* str::parse::<f64>().is_ok(), on the decimal notation [+-]digits[.digits]   *)
(* (exponents and inf/nan spellings are not drawn by the hosts of this model) *)
IsUnsignedDecimal(u) ==
    /\ \A i \in 1..Len(u) : u[i] \in DigitSet \cup {"."}
    /\ Cardinality({i \in 1..Len(u) : u[i] = "."}) <= 1
    /\ \E i \in 1..Len(u) : u[i] \in DigitSet

ParsesAsF64(s) ==
    IsUnsignedDecimal(IF s # <<>> /\ Head(s) \in {"+", "-"} THEN Tail(s) ELSE s)

(***************************************************************************)
(* Results of fallible calls: anyhow::Result and a panic                   *)
(***************************************************************************)
Ok(v) == [kind |-> "Ok", val |-> v]

Err(msg) == [kind |-> "Err", msg |-> msg]

Panic(msg) == [kind |-> "Panic", msg |-> msg]

(* Command::output() that could not spawn the executable; fs::read_to_string that failed *)
SpawnFail == [spawned |-> FALSE]

Stdout(text) == [spawned |-> TRUE, stdout |-> text]

Unreadable == [readable |-> FALSE]

File(text) == [readable |-> TRUE, content |-> text]

(***************************************************************************)
(* Sentinel strings                                                        *)
(***************************************************************************)
S_Unknown == <<"U","n","k","n","o","w","n">>

S_Normal == <<"N","o","r","m","a","l">>

S_OnePointZero == <<"1",".","0">>

S_Default == <<"D","e","f","a","u","l","t">>

S_Display == <<"D","i","s","p","l","a","y">>


S_Hz == <<" ","H","z">>

S_bit == <<" ","b","i","t">>

(***************************************************************************)
(* The sources a detector consults, in the order it consults them          *)
(***************************************************************************)
Cmd(name, target) == [kind |-> "cmd", name |-> name, target |-> target]

Rd(path, target) == [kind |-> "file", name |-> path, target |-> target]

None == [some |-> FALSE]

Some(v) == [some |-> TRUE, v |-> v]

(* the chain with the internal-panel test moved ahead of the DisplayPort test *)
ConnectionTypeOfLower_InternalFirst(name_lower) ==
    IF Contains(name_lower, <<"h","d","m","i">>) THEN Some(<<"H","D","M","I">>)
    ELSE IF Contains(name_lower, <<"l","v","d","s">>) \/ Contains(name_lower, <<"e","d","p">>) THEN Some(<<"I","n","t","e","r","n","a","l">>)
    ELSE IF Contains(name_lower, <<"d","p">>) \/ Contains(name_lower, <<"d","i","s","p","l","a","y","p","o","r","t">>) THEN Some(<<"D","i","s","p","l","a","y","P","o","r","t">>)
    ELSE IF Contains(name_lower, <<"v","g","a">>) THEN Some(<<"V","G","A">>)
    ELSE IF Contains(name_lower, <<"d","v","i">>) THEN Some(<<"D","V","I">>)
    ELSE IF Contains(name_lower, <<"u","s","b">>) THEN Some(<<"U","S","B","-","C">>)
    ELSE None

(***************************************************************************)
(* Displays                                                                *)
(***************************************************************************)
ConnectionTypeOfLower(name_lower) ==
    IF Contains(name_lower, <<"h","d","m","i">>) THEN Some(<<"H","D","M","I">>)
    ELSE IF Contains(name_lower, <<"d","p">>)
            \/ Contains(name_lower, <<"d","i","s","p","l","a","y","p","o","r","t">>)
         THEN Some(<<"D","i","s","p","l","a","y","P","o","r","t">>)
    ELSE IF Contains(name_lower, <<"v","g","a">>) THEN Some(<<"V","G","A">>)
    ELSE IF Contains(name_lower, <<"d","v","i">>) THEN Some(<<"D","V","I">>)
    ELSE IF Contains(name_lower, <<"u","s","b">>) THEN Some(<<"U","S","B","-","C">>)
    ELSE IF Contains(name_lower, <<"l","v","d","s">>) \/ Contains(name_lower, <<"e","d","p">>)
         THEN Some(<<"I","n","t","e","r","n","a","l">>)
    ELSE None

detect_connection_type(display_name) == ConnectionTypeOfLower(ToLowercase(display_name))

(* Option::unwrap_or_else(|| "Unknown") *)
UnwrapOrUnknown(opt) == IF opt.some THEN opt.v ELSE S_Unknown

ConnectionTypeOrUnknown(name) == UnwrapOrUnknown(detect_connection_type(name))

(* The Display literal the three display sources build *)
NewDisplay(name, is_primary, connection_type) ==
    [name            |-> name,
     resolution      |-> S_Unknown,
     refresh_rate    |-> S_Unknown,
     color_depth     |-> S_Unknown,
     is_primary      |-> is_primary,
     brightness      |-> S_Unknown,
     rotation        |-> S_Normal,
     scale_factor    |-> S_OnePointZero,
     color_profile   |-> S_Default,
     connection_type |-> connection_type]

(* Save previous display if exists: current_display.take() pushed *)
PushCurrent(st) ==
    IF st.cur.some THEN Append(st.displays, st.cur.v) ELSE st.displays

(* The mode line's effect on the current display: the resolution, and the *)
(* refresh rate when one was extracted                                    *)
SetMode(st, resolution, rate) ==
    [st EXCEPT !.cur = Some([st.cur.v EXCEPT
        !.resolution   = resolution,
        !.refresh_rate = IF rate.some THEN rate.v ELSE @])]

(* The refresh rate of a starred xrandr mode line: the first token holding *)
(* a `*` whose text without `*` and `+` parses as f64                      *)
XrandrRateAt(parts, i) ==
    IF i = 0 THEN None ELSE Some(Remove(parts[i], {"*", "+"}) \o S_Hz)

XrandrRate(parts) ==
    XrandrRateAt(parts, MinOrZero({i \in 1..Len(parts) :
        Contains(parts[i], <<"*">>) /\ ParsesAsF64(Remove(parts[i], {"*", "+"}))}))

(* if line.contains(" connected") { ... } *)
XrandrHeader(st, line, parts) ==
    IF Contains(line, <<" ","c","o","n","n","e","c","t","e","d">>)
    THEN [displays |-> PushCurrent(st),
          cur      |-> IF parts # <<>>
                       THEN Some(NewDisplay(parts[1],
                                            Contains(line, <<"p","r","i","m","a","r","y">>),
                                            ConnectionTypeOrUnknown(parts[1])))
                       ELSE None]
    ELSE st

(* if line.contains("*") && current_display.is_some() { ... } *)
XrandrMode(st, line, parts) ==
    IF Contains(line, <<"*">>) /\ st.cur.some /\ parts # <<>>
    THEN SetMode(st, parts[1], XrandrRate(parts))
    ELSE st

XrandrDepthOf(st, depth_part, space_pos) ==
    IF space_pos # 0
    THEN [st EXCEPT !.cur = Some([st.cur.v EXCEPT
             !.color_depth = SubSeq(depth_part, 1, space_pos - 1) \o S_bit])]
    ELSE st

XrandrDepthPart(st, depth_part) == XrandrDepthOf(st, depth_part, Find(depth_part, " "))

XrandrDepthAt(st, line, depth_start) ==
    IF depth_start # 0 /\ st.cur.some
    THEN XrandrDepthPart(st, Trim(SubSeq(line, depth_start + 6, Len(line))))
    ELSE st

(* if line.contains("Depth:") && current_display.is_some() { ... } *)
XrandrDepth(st, line) == XrandrDepthAt(st, line, FindSub(line, <<"D","e","p","t","h",":">>))

XrandrTrimmedLine(st, line, parts) ==
    XrandrDepth(XrandrMode(XrandrHeader(st, line, parts), line, parts), line)

(* One iteration of the loop over the lines of `xrandr --verbose` *)
XrandrLine(st, rawline) == XrandrTrimmedLine(st, Trim(rawline), SplitWhitespace(rawline))

RECURSIVE XrandrLoop(_, _)
XrandrLoop(st, lines) ==
    IF lines = <<>> THEN st ELSE XrandrLoop(XrandrLine(st, Head(lines)), Tail(lines))

detect_displays_xrandr(h) ==
    [out |-> IF ~h.xrandr.spawned THEN Err("Failed to run xrandr")
             ELSE Ok(PushCurrent(XrandrLoop([displays |-> <<>>, cur |-> None],
                                            Lines(h.xrandr.stdout)))),
     log |-> <<Cmd("xrandr --verbose", <<>>)>>]

(* The refresh rate of a starred wlr-randr mode line: the first token holding "Hz" *)
WlrRateAt(parts, i) == IF i = 0 THEN None ELSE Some(parts[i])

WlrRate(parts) ==
    WlrRateAt(parts, MinOrZero({i \in 1..Len(parts) : Contains(parts[i], <<"H","z">>)}))

(* if !line.starts_with(' ') && !line.is_empty() { ... }: the line was trimmed before *)
WlrHeaderNamed(st, name) ==
    [displays |-> PushCurrent(st),
     cur      |-> Some(NewDisplay(name, FALSE, ConnectionTypeOrUnknown(name)))]

WlrHeader(st, line, parts) ==
    IF ~StartsWith(line, <<" ">>) /\ line # <<>>
    THEN WlrHeaderNamed(st, IF parts # <<>> THEN parts[1] ELSE S_Unknown)
    ELSE st

(* if line.contains("*") && current_display.is_some() { ... } *)
WlrMode(st, line, parts) ==
    IF Contains(line, <<"*">>) /\ st.cur.some /\ parts # <<>>
    THEN SetMode(st, parts[1], WlrRate(parts))
    ELSE st

WlrTrimmedLine(st, line, parts) == WlrMode(WlrHeader(st, line, parts), line, parts)

(* One iteration of the loop over the lines of `wlr-randr` *)
WlrLine(st, rawline) == WlrTrimmedLine(st, Trim(rawline), SplitWhitespace(rawline))

RECURSIVE WlrLoop(_, _)
WlrLoop(st, lines) ==
    IF lines = <<>> THEN st ELSE WlrLoop(WlrLine(st, Head(lines)), Tail(lines))

detect_displays_wlr_randr(h) ==
    [out |-> IF ~h.wlr.spawned THEN Err("Failed to run wlr-randr")
             ELSE Ok(PushCurrent(WlrLoop([displays |-> <<>>, cur |-> None],
                                         Lines(h.wlr.stdout)))),
     log |-> <<Cmd("wlr-randr", <<>>)>>]

(* the push that marks every connected connector as primary *)
DrmConnected_AllPrimary(st, display_name) ==
    Append(st.displays, NewDisplay(display_name, TRUE, ConnectionTypeOrUnknown(display_name)))

DrmConnected(st, display_name) ==
    Append(st.displays,
           NewDisplay(display_name, st.displays = <<>>, ConnectionTypeOrUnknown(display_name)))

(* One iteration of the loop over the entries of /sys/class/drm *)
DrmEntry(st, entry) ==
    IF StartsWith(entry.name, <<"c","a","r","d">>) /\ Contains(entry.name, <<"-">>)
    THEN [displays |-> IF entry.status.readable
                          /\ Trim(entry.status.content) = <<"c","o","n","n","e","c","t","e","d">>
                       THEN DrmConnected(st, Split(entry.name, "-")[2])
                       ELSE st.displays,
          log      |-> Append(st.log, Rd("/sys/class/drm/<entry>/status", entry.name))]
    ELSE st

RECURSIVE DrmLoop(_, _)
DrmLoop(st, entries) ==
    IF entries = <<>> THEN st ELSE DrmLoop(DrmEntry(st, Head(entries)), Tail(entries))

(* The placeholder record pushed when /sys/class/drm gave no display *)
PlaceholderDisplay == NewDisplay(S_Display, TRUE, S_Unknown)

(* if displays.is_empty() { displays.push(placeholder) } *)
DrmResult(st) ==
    [out |-> Ok(IF st.displays = <<>> THEN <<PlaceholderDisplay>> ELSE st.displays),
     log |-> st.log]

detect_displays_fallback(h) ==
    DrmResult(DrmLoop([displays |-> <<>>, log |-> <<Rd("/sys/class/drm", <<>>)>>],
                      IF h.drm.exists /\ h.drm.readable THEN h.drm.entries ELSE <<>>))

(* if let Ok(ds) = r { if !ds.is_empty() { return Ok(ds) } } *)
YieldsDisplays(r) == r.out.kind = "Ok" /\ r.out.val # <<>>

(* a later source's result, after the sources consulted before it *)
After(log, r) == [out |-> r.out, log |-> log \o r.log]

DisplaysAfterWlr(h, log, w) ==
    IF YieldsDisplays(w) THEN After(log, w)
    ELSE After(log \o w.log, detect_displays_fallback(h))

(* the same chain without the is_empty() test on the xrandr result *)
DisplaysAfterXrandr_NoEmptyTest(h, x) ==
    IF x.out.kind = "Ok" THEN x ELSE DisplaysAfterWlr(h, x.log, detect_displays_wlr_randr(h))

DisplaysAfterXrandr(h, x) ==
    IF YieldsDisplays(x) THEN x ELSE DisplaysAfterWlr(h, x.log, detect_displays_wlr_randr(h))

detect_displays(h) == DisplaysAfterXrandr(h, detect_displays_xrandr(h))

(* the record built on the displays of the previous call, as though the    *)
(* vector outlived the call                                                *)
WrapDisplays_Accumulating(r) ==
    IF r.out.kind = "Ok"
    THEN [out |-> Ok([displays |-> (IF calls # <<>> THEN calls[Len(calls)].out.val.displays ELSE <<>>)
                                       \o r.out.val]),
          log |-> r.log]
    ELSE r

(* DisplayInfo::detect: detect_displays()? wrapped in the record *)
WrapDisplays(r) ==
    IF r.out.kind = "Ok" THEN [out |-> Ok([displays |-> r.out.val]), log |-> r.log] ELSE r

DisplayInfo_detect(h) == WrapDisplays(detect_displays(h))

(***************************************************************************)
(* Hosts of the display detector                                           *)
(***************************************************************************)
(* Up to how many output blocks an xrandr or wlr-randr output holds, and   *)
(* up to how many entries /sys/class/drm holds.                            *)
MaxBlocks == 2

MaxWlrBlocks == 1

MaxDrmEntries == 2

SeqsUpTo(S, n) == UNION {[1..k -> S] : k \in 0..n}

RECURSIVE Flatten(_)
Flatten(ss) == IF ss = <<>> THEN <<>> ELSE Head(ss) \o Flatten(Tail(ss))

XrandrBlocks ==
    { <<"H","D","M","I","-","1"," ","c","o","n","n","e","c","t","e","d"," ","p","r","i","m","a","r","y"," ","1","x","1","+","0","+","0","\n"," "," "," ","1","x","1"," ","6","0",".","0","0","*","+"," ","5","0",".","0","0","\n","\t","D","e","p","t","h",":"," ","2","4"," ","p","l","a","n","e","s","\n">>,
      <<"D","P","-","2"," ","c","o","n","n","e","c","t","e","d","\n"," "," "," ","4","x","4"," ","6","0",".","0","0"," ","+","\n">>,
      <<"V","G","A","-","1"," ","d","i","s","c","o","n","n","e","c","t","e","d","\n"," "," "," ","5","x","5"," ","7","5",".","0","0","*","\n">> }

XrandrOutputs ==
    {SpawnFail, Stdout(<<>>)}
        \cup {Stdout(<<"S","c","r","e","e","n"," ","0",":"," ","m","i","n","i","m","u","m"," ","8"," ","x"," ","8","\n">> \o Flatten(bs)) : bs \in SeqsUpTo(XrandrBlocks, MaxBlocks)}

WlrBlocks ==
    { <<"e","D","P","-","1"," ","\"","p","a","n","e","l","\"","\n">>,
      <<"D","P","-","1"," ","\"","m","\"","\n"," "," ","E","n","a","b","l","e","d",":"," ","y","e","s","\n"," "," "," "," ","7","x","7"," ","p","x",","," ","6","0","H","z"," ","*","\n">> }

WlrOutputs ==
    {SpawnFail} \cup {Stdout(Flatten(bs)) : bs \in SeqsUpTo(WlrBlocks, MaxWlrBlocks)}

DrmEntries ==
    { [name |-> <<"c","a","r","d","0","-","H","D","M","I","-","A","-","1">>, status |-> File(<<"c","o","n","n","e","c","t","e","d","\n">>)],
      [name |-> <<"c","a","r","d","0","-","e","D","P","-","1">>, status |-> File(<<"d","i","s","c","o","n","n","e","c","t","e","d","\n">>)],
      [name |-> <<"c","a","r","d","1","-","D","P","-","1">>, status |-> Unreadable],
      [name |-> <<"c","a","r","d","1","-","D","P","-","2">>, status |-> File(<<" ","c","o","n","n","e","c","t","e","d">>)],
      [name |-> <<"v","e","r","s","i","o","n">>, status |-> Unreadable] }

DrmStates ==
    { [exists |-> FALSE, readable |-> FALSE, entries |-> <<>>],
      [exists |-> TRUE, readable |-> FALSE, entries |-> <<>>] }
        \cup {[exists |-> TRUE, readable |-> TRUE, entries |-> es] :
                 es \in SeqsUpTo(DrmEntries, MaxDrmEntries)}

(* The sources the chain falls through: no output, or one plain answer *)
XrandrPlain ==
    { SpawnFail, Stdout(<<>>),
      Stdout(<<"S","c","r","e","e","n"," ","0",":"," ","m","i","n","i","m","u","m"," ","8"," ","x"," ","8","\n","H","D","M","I","-","1"," ","c","o","n","n","e","c","t","e","d"," ","p","r","i","m","a","r","y"," ","1","x","1","+","0","+","0","\n"," "," "," ","1","x","1"," ","6","0",".","0","0","*","+"," ","5","0",".","0","0","\n","\t","D","e","p","t","h",":"," ","2","4"," ","p","l","a","n","e","s","\n">>) }

WlrPlain ==
    { SpawnFail,
      Stdout(<<"D","P","-","1"," ","\"","m","\"","\n"," "," ","E","n","a","b","l","e","d",":"," ","y","e","s","\n"," "," "," "," ","7","x","7"," ","p","x",","," ","6","0","H","z"," ","*","\n">>) }

DrmPlain ==
    { [exists |-> FALSE, readable |-> FALSE, entries |-> <<>>],
      [exists |-> TRUE, readable |-> TRUE,
       entries |-> <<[name |-> <<"c","a","r","d","0","-","H","D","M","I","-","A","-","1">>, status |-> File(<<"c","o","n","n","e","c","t","e","d","\n">>)]>>] }

(* One source is drawn from all of its outputs, the other two are plain *)
DisplayHosts ==
    [xrandr : XrandrOutputs, wlr : WlrPlain, drm : DrmPlain]
        \cup [xrandr : XrandrPlain, wlr : WlrOutputs, drm : DrmPlain]
        \cup [xrandr : XrandrPlain, wlr : WlrPlain, drm : DrmStates]

(***************************************************************************)
(* The display detector called on a fixed host                             *)
(***************************************************************************)
InitDisplay == host \in DisplayHosts /\ calls = <<>>

DetectDisplays ==
    /\ Len(calls) < MaxCalls
    /\ calls' = Append(calls, DisplayInfo_detect(host))
    /\ UNCHANGED host

NextDisplay == DetectDisplays

SpecDisplay == InitDisplay /\ [][NextDisplay]_vars


(***************************************************************************)
(* Claims about the display detector                                       *)
(***************************************************************************)
Consulted(c, name) == \E i \in 1..Len(c.log) : c.log[i].name = name

GaveDisplays(r) == r.out.kind = "Ok" /\ Len(r.out.val) > 0

(* a /sys/class/drm entry that is a connector whose status file reads `connected` *)
DrmHasConnected(h) ==
    /\ h.drm.exists
    /\ h.drm.readable
    /\ \E i \in 1..Len(h.drm.entries) :
          /\ StartsWith(h.drm.entries[i].name, <<"c","a","r","d">>)
          /\ Contains(h.drm.entries[i].name, <<"-">>)
          /\ h.drm.entries[i].status.readable
          /\ Trim(h.drm.entries[i].status.content) = <<"c","o","n","n","e","c","t","e","d">>

(* C10: display source chain.  Every call of DisplayInfo::detect returns   *)
(* Ok with a non-empty sequence; it is the xrandr result when xrandr gave  *)
(* at least one display, and then nothing else was consulted; wlr-randr is *)
(* run only when xrandr could not be spawned or gave no display;           *)
(* /sys/class/drm is read only when both gave none; and when no source     *)
(* gives a display the result is the single placeholder named "Display".   *)
C10_DisplaySourceChain ==
    \A n \in 1..Len(calls) :
        /\ calls[n].out.kind = "Ok"
        /\ calls[n].out.val.displays # <<>>
        /\ calls[n].log[1].name = "xrandr --verbose"
        /\ GaveDisplays(detect_displays_xrandr(host)) =>
              /\ calls[n].out.val.displays = detect_displays_xrandr(host).out.val
              /\ Len(calls[n].log) = 1
        /\ Consulted(calls[n], "wlr-randr") => ~GaveDisplays(detect_displays_xrandr(host))
        /\ (~GaveDisplays(detect_displays_xrandr(host)) /\ GaveDisplays(detect_displays_wlr_randr(host))) =>
              /\ calls[n].out.val.displays = detect_displays_wlr_randr(host).out.val
              /\ ~Consulted(calls[n], "/sys/class/drm")
        /\ Consulted(calls[n], "/sys/class/drm") =>
              /\ ~GaveDisplays(detect_displays_xrandr(host))
              /\ ~GaveDisplays(detect_displays_wlr_randr(host))
        /\ (/\ ~GaveDisplays(detect_displays_xrandr(host))
            /\ ~GaveDisplays(detect_displays_wlr_randr(host))
            /\ ~DrmHasConnected(host)) =>
              /\ Len(calls[n].out.val.displays) = 1
              /\ calls[n].out.val.displays[1].name = S_Display

(* the whole chain was walked: xrandr ran and gave no display, wlr-randr   *)
(* could not be spawned, /sys/class/drm has no connected connector, and    *)
(* the placeholder came back                                               *)
C10_Witness ==
    /\ Len(calls) >= 1
    /\ host.xrandr.spawned
    /\ ~host.wlr.spawned
    /\ host.drm.exists /\ Len(host.drm.entries) = MaxDrmEntries
    /\ Consulted(calls[1], "xrandr --verbose")
    /\ Consulted(calls[1], "wlr-randr")
    /\ Consulted(calls[1], "/sys/class/drm")
    /\ calls[1].out.val.displays = <<PlaceholderDisplay>>


(***************************************************************************)
(* HashMap<String, String>                                                 *)
(***************************************************************************)
EmptyMap == [k \in {} |-> <<>>]

(* HashMap::insert: the last write of a key wins *)
Insert(m, k, v) == [x \in (DOMAIN m) \cup {k} |-> IF x = k THEN v ELSE m[x]]

(* HashMap::get(..).cloned() *)
Get(m, k) == IF k \in DOMAIN m THEN Some(m[k]) ELSE None

(* Option::unwrap_or_else(|| default) *)
UnwrapOr(opt, default) == IF opt.some THEN opt.v ELSE default

(***************************************************************************)
(* DynamicSystemInfo                                                       *)
(***************************************************************************)
(* str::trim_matches(c): every leading and every trailing c is removed *)
RECURSIVE TrimMatchesStart(_, _)
TrimMatchesStart(s, c) ==
    IF s # <<>> /\ Head(s) = c THEN TrimMatchesStart(Tail(s), c) ELSE s

RECURSIVE TrimMatchesEnd(_, _)
TrimMatchesEnd(s, c) ==
    IF s # <<>> /\ s[Len(s)] = c THEN TrimMatchesEnd(SubSeq(s, 1, Len(s) - 1), c) ELSE s

TrimMatches(s, c) == TrimMatchesEnd(TrimMatchesStart(s, c), c)

OsLineAt(info, line, eq_pos) ==
    IF eq_pos # 0
    THEN Insert(info,
                Trim(SubSeq(line, 1, eq_pos - 1)),
                TrimMatches(Trim(SubSeq(line, eq_pos + 1, Len(line))), "\""))
    ELSE info

(* One iteration of the loop over the lines of /etc/os-release *)
OsLine(info, line) == OsLineAt(info, line, Find(line, "="))

RECURSIVE OsLoop(_, _)
OsLoop(info, lines) ==
    IF lines = <<>> THEN info ELSE OsLoop(OsLine(info, Head(lines)), Tail(lines))

get_os_release_info(h) ==
    [out |-> IF ~h.os_release.readable THEN Err("Failed to read /etc/os-release")
             ELSE Ok(OsLoop(EmptyMap, Lines(h.os_release.content))),
     log |-> <<Rd("/etc/os-release", <<>>)>>]

get_kernel_version(h) ==
    [out |-> IF ~h.uname.spawned THEN Err("Failed to get kernel version")
             ELSE Ok(Trim(h.uname.stdout)),
     log |-> <<Cmd("uname -r", <<>>)>>]

K_NAME == <<"N","A","M","E">>

K_VERSION == <<"V","E","R","S","I","O","N">>

K_VERSION_CODENAME == <<"V","E","R","S","I","O","N","_","C","O","D","E","N","A","M","E">>

S_UnknownLinux == <<"U","n","k","n","o","w","n"," ","L","i","n","u","x">>

S_UnknownVersion == <<"U","n","k","n","o","w","n"," ","V","e","r","s","i","o","n">>

(* the record with an empty VERSION_CODENAME value taken as no codename *)
DynamicRecord_EmptyCodenameDropped(os_release_info, kernel) ==
    [distro_name     |-> UnwrapOr(Get(os_release_info, K_NAME), S_UnknownLinux),
     distro_version  |-> UnwrapOr(Get(os_release_info, K_VERSION), S_UnknownVersion),
     distro_codename |-> IF UnwrapOr(Get(os_release_info, K_VERSION_CODENAME), <<>>) = <<>>
                         THEN None ELSE Get(os_release_info, K_VERSION_CODENAME),
     kernel          |-> kernel]

DynamicRecord(os_release_info, kernel) ==
    [distro_name     |-> UnwrapOr(Get(os_release_info, K_NAME), S_UnknownLinux),
     distro_version  |-> UnwrapOr(Get(os_release_info, K_VERSION), S_UnknownVersion),
     distro_codename |-> Get(os_release_info, K_VERSION_CODENAME),
     kernel          |-> kernel]

(* let kernel = get_kernel_version()?; and the record *)
DynamicAfterKernel(os, k) ==
    [out |-> IF k.out.kind = "Ok" THEN Ok(DynamicRecord(os.out.val, k.out.val)) ELSE k.out,
     log |-> os.log \o k.log]

(* let os_release_info = get_os_release_info()?; *)
DynamicAfterOsRelease(h, os) ==
    IF os.out.kind = "Ok" THEN DynamicAfterKernel(os, get_kernel_version(h)) ELSE os

DynamicSystemInfo_detect(h) == DynamicAfterOsRelease(h, get_os_release_info(h))

MarkupWith(name, codename) ==
    <<"<","s","p","a","n"," ","f","o","n","t","-","s","i","z","e","=","'","x","x","-","l","a","r","g","e","'",">","<","s","p","a","n"," ","f","o","n","t","-","w","e","i","g","h","t","=","'","b","o","l","d","'",">">> \o name \o <<" ","<","/","s","p","a","n",">">> \o codename \o <<"<","/","s","p","a","n",">">>

MarkupWithout(name) ==
    <<"<","s","p","a","n"," ","f","o","n","t","-","s","i","z","e","=","'","x","x","-","l","a","r","g","e","'",">","<","s","p","a","n"," ","f","o","n","t","-","w","e","i","g","h","t","=","'","b","o","l","d","'",">">> \o name \o <<"<","/","s","p","a","n",">","<","/","s","p","a","n",">">>

get_distro_markup(d) ==
    IF d.distro_codename.some THEN MarkupWith(d.distro_name, d.distro_codename.v)
    ELSE MarkupWithout(d.distro_name)

(***************************************************************************)
(* Hosts of the distribution detector                                      *)
(***************************************************************************)
(* Up to how many lines /etc/os-release holds. *)
MaxOsLines == 2

OsLines ==
    { <<"N","A","M","E","=","\"","U","b","u","n","t","u","\"","\n">>,
      <<"N","A","M","E","=","\"","\"","\n">>,
      <<"V","E","R","S","I","O","N","=","\"","2","2",".","0","4"," ","L","T","S","\"","\n">>,
      <<"V","E","R","S","I","O","N","_","C","O","D","E","N","A","M","E","=","j","a","m","m","y","\n">>,
      <<"#"," ","c","o","m","m","e","n","t","\n">>,
      <<" ","N","A","M","E"," ","="," ","\"","\"","A","r","c","h","\"","\""," ","\n">>,
      <<"V","E","R","S","I","O","N","_","C","O","D","E","N","A","M","E","=","\n">> }

OsReleaseFiles ==
    {Unreadable} \cup {File(Flatten(ls)) : ls \in SeqsUpTo(OsLines, MaxOsLines)}

UnameOutputs == {SpawnFail, Stdout(<<>>), Stdout(<<"6",".","1",".","0","-","a","m","d","6","4","\n">>), Stdout(<<"\n">>)}

DynamicHosts == [os_release : OsReleaseFiles, uname : UnameOutputs]

InitDynamic == host \in DynamicHosts /\ calls = <<>>

DetectDynamic ==
    /\ Len(calls) < MaxCalls
    /\ calls' = Append(calls, DynamicSystemInfo_detect(host))
    /\ UNCHANGED host

NextDynamic == DetectDynamic

SpecDynamic == InitDynamic /\ [][NextDynamic]_vars


(***************************************************************************)
(* Claims about the distribution detector                                  *)
(***************************************************************************)
(* C2: DynamicSystemInfo::detect returns an error if and only if           *)
(* /etc/os-release cannot be read; when `uname -r` cannot be spawned it    *)
(* still returns a record, with kernel = "Unknown".                        *)
C2_ErrorIffOsReleaseUnreadable ==
    \A n \in 1..Len(calls) :
        /\ calls[n].out.kind = "Err" <=> ~host.os_release.readable
        /\ (host.os_release.readable /\ ~host.uname.spawned) =>
              /\ calls[n].out.kind = "Ok"
              /\ calls[n].out.val.kernel = S_Unknown

(* C4: every string field of a returned record is non-empty, whatever the  *)
(* tools print and the files hold (here: the record of                     *)
(* DynamicSystemInfo::detect, with os-release holding NAME="" or uname     *)
(* printing nothing).                                                      *)
C4_NoEmptyField ==
    \A n \in 1..Len(calls) :
        calls[n].out.kind = "Ok" =>
            /\ calls[n].out.val.distro_name # <<>>
            /\ calls[n].out.val.distro_version # <<>>
            /\ calls[n].out.val.kernel # <<>>


(***************************************************************************)
(* get_memory_info                                                         *)
(***************************************************************************)
(* str::parse::<u64>(): decimal digits with an optional leading `+` *)
RECURSIVE DigitsValue(_)
DigitsValue(ds) ==
    IF ds = <<>> THEN 0
    ELSE 10 * DigitsValue(SubSeq(ds, 1, Len(ds) - 1)) + DigitVal(ds[Len(ds)])

ParseUnsigned(ds) ==
    IF ds # <<>> /\ \A i \in 1..Len(ds) : ds[i] \in DigitSet THEN Some(DigitsValue(ds)) ELSE None

ParseU64(s) == ParseUnsigned(IF s # <<>> /\ Head(s) = "+" THEN Tail(s) ELSE s)

(* str::replace(from, to): the non-overlapping occurrences, left to right *)
RECURSIVE ReplaceSub(_, _, _)
ReplaceSubAt(s, from, to, p) ==
    IF p = 0 THEN s
    ELSE SubSeq(s, 1, p - 1) \o to \o ReplaceSub(SubSeq(s, p + Len(from), Len(s)), from, to)

ReplaceSub(s, from, to) == ReplaceSubAt(s, from, to, FindSub(s, from))

(* The value of the first line `MemTotal: <u64> ..`, 0 when there is none: *)
(* the loop leaves total_kb at 0 unless a line starts with "MemTotal:",    *)
(* has a second token and that token parses                                *)
MemTotalLineValue(tokens) ==
    IF Len(tokens) >= 2 THEN ParseU64(tokens[2]) ELSE None

MemTotalIn(line) ==
    IF StartsWith(line, <<"M","e","m","T","o","t","a","l",":">>)
    THEN MemTotalLineValue(SplitWhitespace(line))
    ELSE None

RECURSIVE MemTotalLoop(_)
MemTotalFirst(lines, v) == IF v.some THEN v.v ELSE MemTotalLoop(Tail(lines))

MemTotalLoop(lines) ==
    IF lines = <<>> THEN 0 ELSE MemTotalFirst(lines, MemTotalIn(Head(lines)))

(* format!("{:.1}", k as f64 / den) for den = 1024 * d2 a power of two: the *)
(* quotient is exact in f64, and the formatter rounds the exact value to    *)
(* the nearest tenth, ties to even.  Computed in 32-bit-safe steps:         *)
(* n = floor(10 k / 1024), lo = 10 k mod 1024.                              *)
RoundedTenths(n, lo, d2) ==
    (n \div d2)
      + (IF (n % d2) * 1024 + lo > 512 * d2 THEN 1
         ELSE IF (n % d2) * 1024 + lo = 512 * d2 /\ (n \div d2) % 2 = 1 THEN 1
         ELSE 0)

TenthsOf(k, d2) ==
    RoundedTenths(10 * (k \div 1024) + (10 * (k % 1024)) \div 1024, (10 * (k % 1024)) % 1024, d2)

FormatTenths(t) == ToDigits(t \div 10) \o <<".">> \o ToDigits(t % 10)

(* let (size, unit) = if total_gb >= 1024.0 { (total_gb / 1024.0, "TB") }   *)
(* else { (total_gb, "GB") }; format!("{:.1} {}", size, unit)               *)
MemorySize_StrictThreshold(total_kb) ==
    IF total_kb > 1024 * 1024 * 1024
    THEN FormatTenths(TenthsOf(total_kb, 1024 * 1024)) \o <<" ","T","B">>
    ELSE FormatTenths(TenthsOf(total_kb, 1024)) \o <<" ","G","B">>

MemorySize(total_kb) ==
    IF total_kb >= 1024 * 1024 * 1024
    THEN FormatTenths(TenthsOf(total_kb, 1024 * 1024)) \o <<" ","T","B">>
    ELSE FormatTenths(TenthsOf(total_kb, 1024)) \o <<" ","G","B">>

(* line.split(':').nth(1), trimmed; the line starts with "Speed:" or "Type:" *)
AfterFirstColon(line) == Trim(Split(line, ":")[2])

DmiType(st, mem_type) ==
    IF mem_type # <<>> /\ mem_type # S_Unknown THEN [st EXCEPT !.memory_type = mem_type] ELSE st

(* One iteration of the loop over the lines of `dmidecode --type memory` *)
DmiTrimmedLine(st, line) ==
    IF StartsWith(line, <<"S","p","e","e","d",":">>) /\ st.speed = <<>>
    THEN [st EXCEPT !.speed = ReplaceSub(AfterFirstColon(line), <<"M","T","/","s">>, <<"M","H","z">>)]
    ELSE IF StartsWith(line, <<"T","y","p","e",":">>) /\ st.memory_type = <<>>
    THEN DmiType(st, AfterFirstColon(line))
    ELSE st

RECURSIVE DmiLoop(_, _)
DmiLoop(st, lines) ==
    IF lines = <<>> THEN st ELSE DmiLoop(DmiTrimmedLine(st, Trim(Head(lines))), Tail(lines))

(* if let Ok(output) = Command::new("dmidecode").args(["--type", "memory"]).output() *)
MemAfterDmidecode(h, st) ==
    [memory_type |-> st.memory_type, speed |-> st.speed,
     log |-> <<Cmd("dmidecode --type memory", <<>>)>>]

MemDmidecode(h) ==
    MemAfterDmidecode(h,
        IF h.dmidecode_memory.spawned
        THEN DmiLoop([memory_type |-> <<>>, speed |-> <<>>], Lines(h.dmidecode_memory.stdout))
        ELSE [memory_type |-> <<>>, speed |-> <<>>])

(* line.split_whitespace().find(|s| s.contains("DDR")) *)
DdrTokenAt(tokens, i) == IF i = 0 THEN None ELSE Some(tokens[i])

DdrToken(tokens) ==
    DdrTokenAt(tokens, MinOrZero({i \in 1..Len(tokens) : Contains(tokens[i], <<"D","D","R">>)}))

LshwMemLine(line) ==
    IF Contains(line, <<"m","e","m","o","r","y">>)
       /\ (Contains(line, <<"D","D","R">>) \/ Contains(line, <<"S","D","R","A","M">>))
    THEN DdrToken(SplitWhitespace(line))
    ELSE None

RECURSIVE LshwMemLoop(_)
LshwMemFirst(lines, v) == IF v.some THEN v.v ELSE LshwMemLoop(Tail(lines))

(* the memory type taken from `lshw -class memory -short`, empty when no line gives one *)
LshwMemLoop(lines) ==
    IF lines = <<>> THEN <<>> ELSE LshwMemFirst(lines, LshwMemLine(Head(lines)))

(* if memory_type.is_empty() || speed.is_empty() { lshw ... } *)
MemLshw(h, d) ==
    IF d.memory_type = <<>> \/ d.speed = <<>>
    THEN [memory_type |-> IF h.lshw_memory.spawned /\ d.memory_type = <<>>
                          THEN LshwMemLoop(Lines(h.lshw_memory.stdout))
                          ELSE d.memory_type,
          speed       |-> d.speed,
          log         |-> d.log \o <<Cmd("lshw -class memory -short", <<>>)>>]
    ELSE d

(* Format the result *)
MemDescription(total_kb, d) ==
    MemorySize(total_kb)
      \o (IF d.speed # <<>> THEN <<" ">> \o d.speed ELSE <<>>)
      \o (IF d.memory_type # <<>> THEN <<" ">> \o d.memory_type ELSE <<>>)

MemFromMeminfo(total_kb, d) ==
    [out |-> Ok(MemDescription(total_kb, d)), log |-> <<Rd("/proc/meminfo", <<>>)>> \o d.log]

FreeLine(line, parts) ==
    IF StartsWith(line, <<"M","e","m",":">>) /\ Len(parts) > 1
    THEN Some(parts[2] \o <<"B"," ","R","A","M">>)
    ELSE None

RECURSIVE FreeLoop(_)
FreeFirst(lines, v) == IF v.some THEN v ELSE FreeLoop(Tail(lines))

FreeLoop(lines) ==
    IF lines = <<>> THEN None ELSE FreeFirst(lines, FreeLine(Head(lines), SplitWhitespace(Head(lines))))

S_UnknownMemory == <<"U","n","k","n","o","w","n"," ","M","e","m","o","r","y">>

(* Method 2: `free -h`; then the fallback "Unknown Memory" *)
MemFromFree(h) ==
    [out |-> Ok(UnwrapOr(IF h.free.spawned THEN FreeLoop(Lines(h.free.stdout)) ELSE None,
                         S_UnknownMemory)),
     log |-> <<Rd("/proc/meminfo", <<>>), Cmd("free -h", <<>>)>>]

(* the description built from /proc/meminfo whenever the file is readable *)
MemWithTotal_AnyReadable(h, total_kb) ==
    IF h.meminfo.readable THEN MemFromMeminfo(total_kb, MemLshw(h, MemDmidecode(h))) ELSE MemFromFree(h)

MemWithTotal(h, total_kb) ==
    IF total_kb > 0 THEN MemFromMeminfo(total_kb, MemLshw(h, MemDmidecode(h))) ELSE MemFromFree(h)

get_memory_info(h) ==
    MemWithTotal(h, IF h.meminfo.readable THEN MemTotalLoop(Lines(h.meminfo.content)) ELSE 0)

(***************************************************************************)
(* Hosts of get_memory_info                                                *)
(***************************************************************************)
(* MemTotal values (KiB) are drawn at the unit boundaries and along a grid *)
(* of MaxMemSteps steps.                                                   *)
MaxMemSteps == 8

MemTotals ==
    {1, 52428, 52429, 262144, 786432, 1048576, 16252928, 1073689395, 1073689396,
     1073741823, 1073741824, 1073741825, 1153433600, 2147483647}
        \cup {209715 * i * i * i : i \in 1..MaxMemSteps}

(* /proc/meminfo holding `MemTotal: <k> kB`; memtotal_kb records k *)
MeminfoWith(k) ==
    [readable    |-> TRUE,
     content     |-> <<"M","e","m","T","o","t","a","l",":"," "," "," "," "," "," "," ">> \o ToDigits(k) \o <<" ","k","B","\n","M","e","m","F","r","e","e",":"," "," ","1","0","2","4"," ","k","B","\n">>,
     memtotal_kb |-> k]

MeminfoFiles ==
    { [readable |-> FALSE, memtotal_kb |-> 0],
      [readable |-> TRUE, content |-> <<"M","e","m","F","r","e","e",":"," "," ","1","0","2","4"," ","k","B","\n">>, memtotal_kb |-> 0],
      [readable |-> TRUE, content |-> <<"M","e","m","T","o","t","a","l",":","\n","M","e","m","T","o","t","a","l",":"," ","l","o","t","s"," ","k","B","\n">>, memtotal_kb |-> 0],
      MeminfoWith(0) }
        \cup {MeminfoWith(k) : k \in MemTotals}

DmidecodeMemoryOutputs ==
    { SpawnFail,
      Stdout(<<>>),
      Stdout(<<"M","e","m","o","r","y"," ","D","e","v","i","c","e","\n","\t","T","y","p","e",":"," ","D","D","R","4","\n","\t","S","p","e","e","d",":"," ","3","2","0","0"," ","M","T","/","s","\n">>),
      Stdout(<<"M","e","m","o","r","y"," ","D","e","v","i","c","e","\n","\t","S","p","e","e","d",":"," ","U","n","k","n","o","w","n","\n","\t","T","y","p","e",":"," ","U","n","k","n","o","w","n","\n","M","e","m","o","r","y"," ","D","e","v","i","c","e","\n","\t","T","y","p","e",":"," ","D","D","R","4","\n","\t","S","p","e","e","d",":"," ","2","4","0","0"," ","M","T","/","s","\n">>) }

LshwMemoryOutputs ==
    { SpawnFail,
      Stdout(<<"/","0","/","1"," ","m","e","m","o","r","y"," ","1","6","G","i","B"," ","S","y","s","t","e","m"," ","M","e","m","o","r","y","\n","/","0","/","1","/","0"," ","m","e","m","o","r","y"," ","8","G","i","B"," ","S","O","D","I","M","M"," ","D","D","R","5"," ","S","y","n","c","h","r","o","n","o","u","s","\n">>) }

FreeOutputs ==
    { SpawnFail,
      Stdout(<<" "," "," "," "," "," ","t","o","t","a","l"," ","u","s","e","d","\n","M","e","m",":"," "," ","1","5","G","i"," ","4","G","i","\n">>),
      Stdout(<<"M","e","m",":","\n">>) }

MemoryHosts ==
    [meminfo : MeminfoFiles, dmidecode_memory : DmidecodeMemoryOutputs,
     lshw_memory : LshwMemoryOutputs, free : FreeOutputs]

InitMemory == host \in MemoryHosts /\ calls = <<>>

DetectMemory ==
    /\ Len(calls) < MaxCalls
    /\ calls' = Append(calls, get_memory_info(host))
    /\ UNCHANGED host

NextMemory == DetectMemory

SpecMemory == InitMemory /\ [][NextMemory]_vars


(***************************************************************************)
(* Properties of get_memory_info                                           *)
(***************************************************************************)
(* |10 k - t * 1024 * d2| <= 512 * d2: t tenths is a nearest one-decimal   *)
(* value of k / (1024 * d2).  Written with k = 1024 a + b.                 *)
NearestTenth(t, k, d2) ==
    /\ 10 * (k \div 1024) - t * (d2 \div 1024) <= d2 \div 1024
    /\ t * (d2 \div 1024) - 10 * (k \div 1024) <= d2 \div 1024
    /\ 1024 * (10 * (k \div 1024) - t * (d2 \div 1024)) + 10 * (k % 1024) <= d2 \div 2
    /\ 1024 * (t * (d2 \div 1024) - 10 * (k \div 1024)) - 10 * (k % 1024) <= d2 \div 2

(* the description reads <digits>.<digit><unit>...; its number in tenths *)
SizeTenths(desc, dot) ==
    10 * DigitsValue(SubSeq(desc, 1, dot - 1)) + DigitVal(desc[dot + 1])

SizeIs(desc, dot, k, d2, unit) ==
    /\ dot > 1
    /\ Len(desc) >= dot + 1 + Len(unit)
    /\ \A i \in 1..(dot - 1) : desc[i] \in DigitSet
    /\ desc[dot + 1] \in DigitSet
    /\ SubSeq(desc, dot + 2, dot + 1 + Len(unit)) = unit
    /\ NearestTenth(SizeTenths(desc, dot), k, d2)

MemoryOk(n) == calls[n].out.kind = "Ok"

(* C8: for every positive MemTotal k the description starts with           *)
(* k / 2^20 to one decimal and " GB" when k / 2^20 < 1024, and with        *)
(* k / 2^30 to one decimal and " TB" otherwise; 1048576 KiB gives          *)
(* "1.0 GB" and 1100 GiB gives "1.1 TB".                                   *)
C8_MemorySizeFormat ==
    \A n \in 1..Len(calls) :
        host.meminfo.memtotal_kb > 0 =>
            /\ MemoryOk(n)
            /\ IF host.meminfo.memtotal_kb \div (1024 * 1024) < 1024
               THEN SizeIs(calls[n].out.val, Find(calls[n].out.val, "."),
                           host.meminfo.memtotal_kb, 1024 * 1024, <<" ","G","B">>)
               ELSE SizeIs(calls[n].out.val, Find(calls[n].out.val, "."),
                           host.meminfo.memtotal_kb, 1024 * 1024 * 1024, <<" ","T","B">>)
            /\ host.meminfo.memtotal_kb = 1048576
                   => StartsWith(calls[n].out.val, <<"1",".","0"," ","G","B">>)
            /\ host.meminfo.memtotal_kb = 1100 * 1024 * 1024
                   => StartsWith(calls[n].out.val, <<"1",".","1"," ","T","B">>)

(* a total of exactly 1024 GiB has been formatted, as "1.0 TB" *)
C8_Witness ==
    /\ Len(calls) >= 1
    /\ host.meminfo.memtotal_kb = 1024 * 1024 * 1024
    /\ calls[1].out.kind = "Ok"
    /\ StartsWith(calls[1].out.val, <<"1",".","0"," ","T","B">>)

(* C9: no MemTotal value gives a description whose size part is "1024.0 GB" *)
C9_Never1024GB ==
    \A n \in 1..Len(calls) :
        calls[n].out.kind = "Ok" => ~StartsWith(calls[n].out.val, <<"1","0","2","4",".","0"," ","G","B">>)


(***************************************************************************)
(* get_serial_number                                                       *)
(***************************************************************************)
S_NotSpecified == <<"N","o","t"," ","S","p","e","c","i","f","i","e","d">>

(* if !serial.is_empty() && serial != "Not Specified" { return Ok(serial) } *)
UsableSerial(serial) ==
    IF serial # <<>> /\ serial # S_NotSpecified THEN Some(serial) ELSE None

DmiSerialLine(line) ==
    IF StartsWith(line, <<"S","e","r","i","a","l"," ","N","u","m","b","e","r",":">>) THEN UsableSerial(AfterFirstColon(line)) ELSE None

RECURSIVE DmiSerialLoop(_)
DmiSerialFirst(lines, v) == IF v.some THEN v ELSE DmiSerialLoop(Tail(lines))

DmiSerialLoop(lines) ==
    IF lines = <<>> THEN None ELSE DmiSerialFirst(lines, DmiSerialLine(Trim(Head(lines))))

(* method 1 taking the dmidecode output only from a run that exited zero *)
SerialFromDmidecode_SuccessOnly(h) ==
    IF h.dmidecode_baseboard.spawned /\ h.dmidecode_baseboard.status = 0
    THEN DmiSerialLoop(Lines(h.dmidecode_baseboard.stdout))
    ELSE None

(* Method 1: `dmidecode --type baseboard` *)
SerialFromDmidecode(h) ==
    IF h.dmidecode_baseboard.spawned THEN DmiSerialLoop(Lines(h.dmidecode_baseboard.stdout)) ELSE None

(* Methods 2 and 3: /sys/class/dmi/id/board_serial, product_serial *)
SerialFromFile(f) == IF f.readable THEN UsableSerial(Trim(f.content)) ELSE None

LshwSerialToken(parts) ==
    IF Len(parts) > 2
       /\ Len(parts[Len(parts)]) > 4
       /\ ~Contains(parts[Len(parts)], <<"c","o","m","p","u","t","e","r">>)
    THEN Some(parts[Len(parts)])
    ELSE None

LshwSerialLine(line) ==
    IF Contains(line, <<"c","o","m","p","u","t","e","r">>) \/ Contains(line, <<"s","y","s","t","e","m">>)
    THEN LshwSerialToken(SplitWhitespace(line))
    ELSE None

RECURSIVE LshwSerialLoop(_)
LshwSerialFirst(lines, v) == IF v.some THEN v ELSE LshwSerialLoop(Tail(lines))

LshwSerialLoop(lines) ==
    IF lines = <<>> THEN None ELSE LshwSerialFirst(lines, LshwSerialLine(Head(lines)))

(* Method 4: `lshw -class system -short` *)
SerialFromLshw(h) ==
    IF h.lshw_system.spawned THEN LshwSerialLoop(Lines(h.lshw_system.stdout)) ELSE None

S_machine == <<"m","a","c","h","i","n","e","-">>

(* format!("machine-{}", &machine_id[..8]): the slice panics when the      *)
(* trimmed id is shorter than 8 bytes                                      *)
MachineIdSlice(machine_id) ==
    IF Len(machine_id) >= 8
    THEN Ok(S_machine \o SubSeq(machine_id, 1, 8))
    ELSE Panic("byte index 8 is out of bounds")

MachineIdTrimmed(machine_id) ==
    IF machine_id # <<>> THEN MachineIdSlice(machine_id) ELSE Ok(S_Unknown)

(* Method 5: /etc/machine-id, then the final fallback "Unknown" *)
SerialFromMachineId(h) ==
    IF h.machine_id.readable THEN MachineIdTrimmed(Trim(h.machine_id.content)) ELSE Ok(S_Unknown)

(* one method of the chain that is consulted even after a value was found *)
SerialStep_NoEarlyReturn(prev, src, found) ==
    [done |-> prev.done \/ found.some,
     out  |-> IF prev.done THEN prev.out ELSE IF found.some THEN Ok(found.v) ELSE prev.out,
     log  |-> Append(prev.log, src)]

(* One method of the chain: `prev` is returned when it already holds the   *)
(* result, otherwise `src` is consulted                                    *)
SerialStep(prev, src, found) ==
    IF prev.done THEN prev
    ELSE [done |-> found.some, out |-> IF found.some THEN Ok(found.v) ELSE prev.out,
          log |-> Append(prev.log, src)]

SerialLast(prev, src, out) ==
    IF prev.done THEN [out |-> prev.out, log |-> prev.log]
    ELSE [out |-> out, log |-> Append(prev.log, src)]

get_serial_number(h) ==
    SerialLast(
        SerialStep(
            SerialStep(
                SerialStep(
                    SerialStep([done |-> FALSE, out |-> Ok(S_Unknown), log |-> <<>>],
                               Cmd("dmidecode --type baseboard", <<>>), SerialFromDmidecode(h)),
                    Rd("/sys/class/dmi/id/board_serial", <<>>), SerialFromFile(h.board_serial)),
                Rd("/sys/class/dmi/id/product_serial", <<>>), SerialFromFile(h.product_serial)),
            Cmd("lshw -class system -short", <<>>), SerialFromLshw(h)),
        Rd("/etc/machine-id", <<>>), SerialFromMachineId(h))

(***************************************************************************)
(* Hosts of get_serial_number                                              *)
(***************************************************************************)
(* /etc/machine-id holds up to MaxIdLen characters of an id and a newline *)
MaxIdLen == 10

IdChars == <<"4","f","9","a","0","2","c","7","d","1","e","8","b","3","5","6">>

DmidecodeBaseboardOutputs ==
    { SpawnFail,
      Stdout(<<"B","a","s","e"," ","B","o","a","r","d"," ","I","n","f","o","r","m","a","t","i","o","n","\n","\t","S","e","r","i","a","l"," ","N","u","m","b","e","r",":"," ","N","o","t"," ","S","p","e","c","i","f","i","e","d","\n">>),
      Stdout(<<"B","a","s","e"," ","B","o","a","r","d"," ","I","n","f","o","r","m","a","t","i","o","n","\n","\t","S","e","r","i","a","l"," ","N","u","m","b","e","r",":","\n","\t","S","e","r","i","a","l"," ","N","u","m","b","e","r",":"," ","P","F",":","1","2","\n">>),
      Stdout(<<"B","a","s","e"," ","B","o","a","r","d"," ","I","n","f","o","r","m","a","t","i","o","n","\n","\t","A","s","s","e","t"," ","T","a","g",":"," ","n","o","n","e","\n">>) }

BoardSerialFiles ==
    { Unreadable, File(<<"\n">>), File(<<"N","o","t"," ","S","p","e","c","i","f","i","e","d","\n">>), File(<<" ","B","S","-","1","\n">>) }

ProductSerialFiles ==
    { Unreadable, File(<<"P","S","-","2","\n">>) }

LshwSystemOutputs ==
    { SpawnFail,
      Stdout(<<"H","/","W"," ","p","a","t","h"," "," ","D","e","v","i","c","e"," "," ","C","l","a","s","s"," "," "," ","D","e","s","c","r","i","p","t","i","o","n","\n"," "," "," "," "," "," "," "," "," "," "," "," "," "," "," "," "," "," ","s","y","s","t","e","m"," "," ","T","h","i","n","k","P","a","d"," ","X","1","\n">>),
      Stdout(<<" "," "," "," "," "," "," "," "," "," "," "," "," "," "," "," "," "," ","s","y","s","t","e","m"," "," ","L","a","p","t","o","p"," ","2","0","Q","D","0","0","L","K","U","S","\n">>) }

MachineIdFiles ==
    { Unreadable, File(<<>>) }
        \cup {File(SubSeq(IdChars, 1, n) \o <<"\n">>) : n \in 0..MaxIdLen}

SerialHosts ==
    [dmidecode_baseboard : DmidecodeBaseboardOutputs, board_serial : BoardSerialFiles,
     product_serial : ProductSerialFiles, lshw_system : LshwSystemOutputs,
     machine_id : MachineIdFiles]

InitSerial == host \in SerialHosts /\ calls = <<>>

DetectSerial ==
    /\ Len(calls) < MaxCalls
    /\ calls' = Append(calls, get_serial_number(host))
    /\ UNCHANGED host

NextSerial == DetectSerial

SpecSerial == InitSerial /\ [][NextSerial]_vars

(***************************************************************************)
(* Properties of get_serial_number                                         *)
(***************************************************************************)
ReachedMachineId(c) ==
    \E i \in 1..Len(c.log) : c.log[i] = Rd("/etc/machine-id", <<>>)

FirstChars(s, n) == SubSeq(s, 1, IF Len(s) < n THEN Len(s) ELSE n)

(* C6: when every earlier source fails, the result is "machine-" and the   *)
(* first 8 characters of the trimmed /etc/machine-id for every non-empty   *)
(* content, shorter ones included, and "Unknown" when the file is          *)
(* unreadable or empty; the call never aborts.                             *)
C6_MachineIdFallback ==
    \A n \in 1..Len(calls) :
        /\ calls[n].out.kind # "Panic"
        /\ ReachedMachineId(calls[n]) =>
               calls[n].out =
                   IF host.machine_id.readable /\ Trim(host.machine_id.content) # <<>>
                   THEN Ok(S_machine \o FirstChars(Trim(host.machine_id.content), 8))
                   ELSE Ok(S_Unknown)


(***************************************************************************)
(* serde_json::Value                                                       *)
(***************************************************************************)
(* Strings are character sequences; an object is a function from its keys  *)
(* to values; a number is an integer (as_u64() is Some for the             *)
(* non-negative ones).                                                     *)
JNull == [t |-> "null"]

JStr(s) == [t |-> "str", s |-> s]

JNum(n) == [t |-> "num", n |-> n]

JObj(o) == [t |-> "obj", o |-> o]

JArr(a) == [t |-> "arr", a |-> a]

(* Index<&str> for Value: Null when v is not an object or lacks the key *)
ValueIndex(v, key) == IF v.t = "obj" /\ key \in DOMAIN v.o THEN v.o[key] ELSE JNull

(* Index<&str> for Map<String, Value> panics when the key is absent; the   *)
(* parser below tests HasKey before each such access                       *)
HasKey(m, key) == key \in DOMAIN m

AsStr(v) == IF v.t = "str" THEN Some(v.s) ELSE None

AsU64(v) == IF v.t = "num" /\ v.n >= 0 THEN Some(v.n) ELSE None

(***************************************************************************)
(* parse_fastfetch_json                                                    *)
(***************************************************************************)
K_Host == <<"H","o","s","t">>

K_User == <<"U","s","e","r">>

K_CPU == <<"C","P","U">>

K_Memory == <<"M","e","m","o","r","y">>

K_GPU == <<"G","P","U">>

K_StartupDisk == <<"S","t","a","r","t","u","p"," ","D","i","s","k">>

K_Hardware == <<"H","a","r","d","w","a","r","e">>

K_SerialNumber == <<"S","e","r","i","a","l"," ","N","u","m","b","e","r">>

(* The outcome of a match arm: the map so far, or the panic of a Map index *)
KeyMissing == [panicked |-> TRUE]

Cont(info) == [panicked |-> FALSE, info |-> info]

(* if let Some(x) = v.as_str() { info.insert(key, x) } *)
InsertStr(info, key, v) == IF v.t = "str" THEN Insert(info, key, v.s) ELSE info

(* "Title" *)
TitleUserName(info, result) ==
    IF ~HasKey(result, "userName") THEN KeyMissing
    ELSE Cont(InsertStr(info, K_User, result["userName"]))

TitleItem(info, result) ==
    IF ~HasKey(result, "hostName") THEN KeyMissing
    ELSE TitleUserName(InsertStr(info, K_Host, result["hostName"]), result)

(* format!("{:.1}", mhz as f64 / 1000.0) in tenths: the nearest tenth; a   *)
(* tie x.25 or x.75 is exact in f64 and goes to the even digit.  (For the  *)
(* other ties, mhz % 100 = 50 and mhz % 250 # 0, the digit depends on the  *)
(* binary rounding of the quotient; the hosts draw no such frequency.)     *)
GHzTenths(mhz) ==
    IF mhz % 100 > 50 THEN mhz \div 100 + 1
    ELSE IF mhz % 100 < 50 THEN mhz \div 100
    ELSE mhz \div 100 + ((mhz \div 100) % 2)

KeyMissingStr == [panicked |-> TRUE]

ContStr(s) == [panicked |-> FALSE, s |-> s]

(* Add core information if available *)
CoresSuffix(cpu_info, physical, logical) ==
    IF physical.some /\ logical.some
    THEN cpu_info \o <<" ","(">> \o ToDigits(physical.v) \o <<" ","c","o","r","e","s",","," ">>
                  \o ToDigits(logical.v) \o <<" ","t","h","r","e","a","d","s",")">>
    ELSE cpu_info

CpuCores(cpu_info, cores) ==
    IF cores.t # "obj" THEN ContStr(cpu_info)
    ELSE IF ~HasKey(cores.o, "physical") \/ ~HasKey(cores.o, "logical") THEN KeyMissingStr
    ELSE ContStr(CoresSuffix(cpu_info, AsU64(cores.o["physical"]), AsU64(cores.o["logical"])))

(* Add frequency information if available *)
FrequencySuffix(cpu_info, base, max) ==
    IF base.some /\ max.some
    THEN cpu_info \o <<" ","@"," ">> \o FormatTenths(GHzTenths(base.v)) \o <<"-">>
                  \o FormatTenths(GHzTenths(max.v)) \o <<" ","G","H","z">>
    ELSE cpu_info

CpuFrequency(cpu_info, freq) ==
    IF freq.t # "obj" THEN ContStr(cpu_info)
    ELSE IF ~HasKey(freq.o, "base") \/ ~HasKey(freq.o, "max") THEN KeyMissingStr
    ELSE ContStr(FrequencySuffix(cpu_info, AsU64(freq.o["base"]), AsU64(freq.o["max"])))

CpuAfterFrequency(info, f) ==
    IF f.panicked THEN KeyMissing ELSE Cont(Insert(info, K_CPU, f.s))

CpuAfterCores(info, result, c) ==
    IF c.panicked THEN KeyMissing
    ELSE IF ~HasKey(result, "frequency") THEN KeyMissing
    ELSE CpuAfterFrequency(info, CpuFrequency(c.s, result["frequency"]))

CpuWithName(info, result, cpu_name) ==
    IF ~HasKey(result, "cores") THEN KeyMissing
    ELSE CpuAfterCores(info, result, CpuCores(cpu_name, result["cores"]))

(* "CPU" *)
CpuItem(info, result) ==
    IF ~HasKey(result, "cpu") THEN KeyMissing
    ELSE IF result["cpu"].t # "str" THEN Cont(info)
    ELSE CpuWithName(info, result, result["cpu"].s)

(* format!("{:.1} GB", total as f64 / 1024.0 / 1024.0 / 1024.0) *)
BytesAsGB(total) == FormatTenths(TenthsOf(total, 1024 * 1024)) \o <<" ","G","B">>

MemoryTotal(info, total) ==
    IF total.some THEN Insert(info, K_Memory, BytesAsGB(total.v)) ELSE info

(* "Memory" *)
MemoryItem(info, result) ==
    IF ~HasKey(result, "total") THEN KeyMissing
    ELSE Cont(MemoryTotal(info, AsU64(result["total"])))

GpuVendor(gpu_name, vendor) ==
    IF vendor.t = "str" THEN vendor.s \o <<" ">> \o gpu_name ELSE gpu_name

GpuObject(info, gpu) ==
    IF ~HasKey(gpu, "name") THEN KeyMissing
    ELSE IF gpu["name"].t # "str" THEN Cont(info)
    ELSE IF ~HasKey(gpu, "vendor") THEN KeyMissing
    ELSE Cont(Insert(info, K_GPU, GpuVendor(gpu["name"].s, gpu["vendor"])))

(* "GPU": result.get(0).and_then(|g| g.as_object()) *)
GpuItem(info, result) ==
    IF Len(result) >= 1 /\ result[1].t = "obj" THEN GpuObject(info, result[1].o) ELSE Cont(info)

DiskDescription(total, filesystem) ==
    BytesAsGB(total) \o <<" ","(">> \o UnwrapOr(AsStr(filesystem), S_Unknown) \o <<")">>

(* One disk of the "Disk" result: found (insert and break), skipped, or    *)
(* the panic of a Map index                                                *)
DiskBytes(info, disk_obj, bytes) ==
    IF bytes.t # "obj" THEN [panicked |-> FALSE, found |-> FALSE, info |-> info]
    ELSE IF ~HasKey(bytes.o, "total") THEN [panicked |-> TRUE]
    ELSE IF ~AsU64(bytes.o["total"]).some THEN [panicked |-> FALSE, found |-> FALSE, info |-> info]
    ELSE IF ~HasKey(disk_obj, "filesystem") THEN [panicked |-> TRUE]
    ELSE [panicked |-> FALSE, found |-> TRUE,
          info |-> Insert(info, K_StartupDisk,
                          DiskDescription(bytes.o["total"].n, disk_obj["filesystem"]))]

DiskObject(info, disk_obj) ==
    IF ~HasKey(disk_obj, "mountpoint") THEN [panicked |-> TRUE]
    ELSE IF disk_obj["mountpoint"] # JStr(<<"/">>)
    THEN [panicked |-> FALSE, found |-> FALSE, info |-> info]
    ELSE IF ~HasKey(disk_obj, "bytes") THEN [panicked |-> TRUE]
    ELSE DiskBytes(info, disk_obj, disk_obj["bytes"])

DiskEntry(info, disk) ==
    IF disk.t = "obj" THEN DiskObject(info, disk.o)
    ELSE [panicked |-> FALSE, found |-> FALSE, info |-> info]

(* "Disk": Find the root disk *)
RECURSIVE DiskItem(_, _)
DiskNext(d, rest) ==
    IF d.panicked THEN KeyMissing
    ELSE IF d.found THEN Cont(d.info)
    ELSE DiskItem(d.info, rest)

DiskItem(info, result) ==
    IF result = <<>> THEN Cont(info) ELSE DiskNext(DiskEntry(info, Head(result)), Tail(result))

HostVersion(host_info, version) ==
    IF version.t # "str" THEN host_info
    ELSE (IF host_info # <<>> THEN host_info \o <<" ">> ELSE host_info) \o version.s

HostHardware(info, host_info) ==
    IF host_info # <<>> THEN Insert(info, K_Hardware, host_info) ELSE info

HostSerial(info, serial) ==
    IF serial.t = "str" /\ serial.s # <<>> THEN Insert(info, K_SerialNumber, serial.s) ELSE info

(* "Host" *)
HostItem(info, result) ==
    IF ~HasKey(result, "vendor") \/ ~HasKey(result, "version") \/ ~HasKey(result, "serial")
    THEN KeyMissing
    ELSE Cont(HostSerial(HostHardware(info,
                             HostVersion(UnwrapOr(AsStr(result["vendor"]), <<>>), result["version"])),
                         result["serial"]))

(* match item_type { ... }: the arms take result.as_object() or .as_array() *)
MatchItemType(info, item_type, result) ==
    IF item_type = <<"T","i","t","l","e">> /\ result.t = "obj" THEN TitleItem(info, result.o)
    ELSE IF item_type = K_CPU /\ result.t = "obj" THEN CpuItem(info, result.o)
    ELSE IF item_type = K_Memory /\ result.t = "obj" THEN MemoryItem(info, result.o)
    ELSE IF item_type = K_GPU /\ result.t = "arr" THEN GpuItem(info, result.a)
    ELSE IF item_type = <<"D","i","s","k">> /\ result.t = "arr" THEN DiskItem(info, result.a)
    ELSE IF item_type = K_Host /\ result.t = "obj" THEN HostItem(info, result.o)
    ELSE Cont(info)

(* if let Some(item_type) = item["type"].as_str() *)
ItemOfType(info, item, item_type) ==
    IF item_type.some THEN MatchItemType(info, item_type.v, ValueIndex(item, "result"))
    ELSE Cont(info)

JsonItem(info, item) == ItemOfType(info, item, AsStr(ValueIndex(item, "type")))

(* for item in array *)
RECURSIVE JsonItems(_, _)
JsonItems(st, array) ==
    IF st.panicked \/ array = <<>> THEN st
    ELSE JsonItems(JsonItem(st.info, Head(array)), Tail(array))

JsonResult(st) ==
    IF st.panicked THEN Panic("no entry found for key") ELSE Ok(st.info)

parse_fastfetch_json(json_data) ==
    IF json_data.t = "arr" THEN JsonResult(JsonItems(Cont(EmptyMap), json_data.a))
    ELSE Ok(EmptyMap)


(***************************************************************************)
(* Fastfetch JSON documents                                                *)
(***************************************************************************)
(* A document is an array of up to MaxItems items; each item's result      *)
(* carries all of the keys the parser reads, or lacks some of them.        *)
MaxItems == 2

Restrict(full, ks) == [k \in ks |-> full[k]]

WithoutOne(full) == {DOMAIN full} \cup {DOMAIN full \ {k} : k \in DOMAIN full}

JsonItemOf(item_type, result) == JObj([type |-> JStr(item_type), result |-> result])

TitleFull == [hostName |-> JStr(<<"p","c">>), userName |-> JStr(<<"u">>)]

CpuFull ==
    [cpu       |-> JStr(<<"i","7">>),
     cores     |-> JObj([physical |-> JNum(4), logical |-> JNum(8)]),
     frequency |-> JObj([base |-> JNum(2400), max |-> JNum(3600)])]

MemoryFull == [total |-> JNum(1073741824)]

GpuFull == [name |-> JStr(<<"U","H","D">>), vendor |-> JStr(<<"I","n","t","e","l">>)]

DiskFull ==
    [mountpoint |-> JStr(<<"/">>),
     bytes      |-> JObj([total |-> JNum(1610612736)]),
     filesystem |-> JStr(<<"e","x","t","4">>)]

DiskHome == [DiskFull EXCEPT !.mountpoint = JStr(<<"/","h","o","m","e">>)]

HostFull ==
    [vendor  |-> JStr(<<"A","c","m","e">>),
     version |-> JStr(<<"1",".","0">>),
     serial  |-> JStr(<<"S","1">>)]

JsonItemPool ==
    {JsonItemOf(<<"T","i","t","l","e">>, JObj(Restrict(TitleFull, ks))) : ks \in SUBSET DOMAIN TitleFull}
      \cup {JsonItemOf(K_CPU, JObj(Restrict(CpuFull, ks))) : ks \in SUBSET DOMAIN CpuFull}
      \cup {JsonItemOf(K_Memory, JObj(Restrict(MemoryFull, ks))) : ks \in SUBSET DOMAIN MemoryFull}
      \cup {JsonItemOf(K_GPU, JArr(<<JObj(Restrict(GpuFull, ks))>>)) : ks \in SUBSET DOMAIN GpuFull}
      \cup {JsonItemOf(<<"D","i","s","k">>, JArr(<<JObj(DiskHome), JObj(Restrict(DiskFull, ks))>>)) :
                ks \in WithoutOne(DiskFull)}
      \cup {JsonItemOf(K_Host, JObj(Restrict(HostFull, ks))) : ks \in WithoutOne(HostFull)}
      \cup {JsonItemOf(<<"O","S">>, JNull), JObj([result |-> JNull]), JStr(<<"x">>)}

JsonDocs ==
    {JNull, JObj(TitleFull)} \cup {JArr(items) : items \in SeqsUpTo(JsonItemPool, MaxItems)}

JsonHosts == [doc : JsonDocs]

InitJson == host \in JsonHosts /\ calls = <<>>

ParseJson ==
    /\ Len(calls) < MaxCalls
    /\ calls' = Append(calls, [out |-> parse_fastfetch_json(host.doc), log |-> <<>>])
    /\ UNCHANGED host

NextJson == ParseJson

SpecJson == InitJson /\ [][NextJson]_vars

(***************************************************************************)
(* Properties of parse_fastfetch_json                                      *)
(***************************************************************************)
(* C5: for every fastfetch JSON array, whichever keys are missing from an  *)
(* item's result object, parse_fastfetch_json completes and returns a map; *)
(* detection does not abort.                                               *)
C5_MissingKeysTolerated ==
    \A n \in 1..Len(calls) : host.doc.t = "arr" => calls[n].out.kind = "Ok"


(***************************************************************************)
(* parse_fastfetch_text                                                    *)
(***************************************************************************)
(* The printable ASCII characters in code order, U+0020 to U+007E, without *)
(* the grave accent U+0060; the escape character U+001B is written "ESC"  *)
(* (one element of a string)                                              *)
Printable ==
    <<" ","!","\"","#","$","%","&","'","(",")","*","+",",","-",".","/",
      "0","1","2","3","4","5","6","7","8","9",":",";","<","=",">","?",
      "@","A","B","C","D","E","F","G","H","I","J","K","L","M","N","O",
      "P","Q","R","S","T","U","V","W","X","Y","Z","[","\\","]","^","_",
      "a","b","c","d","e","f","g","h","i","j","k","l","m","n","o",
      "p","q","r","s","t","u","v","w","x","y","z","{","|","}","~">>

CodeAt(i) == IF i <= 64 THEN 31 + i ELSE 32 + i

CharCode(c) ==
    IF c = "ESC" THEN 27
    ELSE IF c = "\t" THEN 9
    ELSE IF c = "\n" THEN 10
    ELSE IF c = "\r" THEN 13
    ELSE CodeAt(MinOrZero({i \in 1..Len(Printable) : Printable[i] = c}))

(* The end of the longest run of characters with codes in lo..hi from i on *)
RECURSIVE ClassRunEnd(_, _, _, _)
ClassRunEnd(s, i, lo, hi) ==
    IF i <= Len(s) /\ CharCode(s[i]) \in lo..hi THEN ClassRunEnd(s, i + 1, lo, hi) ELSE i

CsiFinal(s, j) == IF j <= Len(s) /\ CharCode(s[j]) \in 64..126 THEN j ELSE 0

(* The length of the match of \x1B(?:[@-Z\\-_]|\[[0-?]*[ -/]*[@-~]) at the *)
(* ESC that starts s, 0 when it does not match there.  The three classes   *)
(* of the second alternative are disjoint, so the greedy runs are the only *)
(* candidate.                                                              *)
AnsiMatchLen(s) ==
    IF Len(s) < 2 THEN 0
    ELSE IF CharCode(s[2]) \in (64..90) \cup (92..95) THEN 2
    ELSE IF s[2] = "[" THEN CsiFinal(s, ClassRunEnd(s, ClassRunEnd(s, 3, 48, 63), 32, 47))
    ELSE 0

(* ansi_escape.replace_all(output_str, "") *)
RECURSIVE StripAnsi(_)
StripAnsiAt(s, m) ==
    IF m > 0 THEN StripAnsi(SubSeq(s, m + 1, Len(s))) ELSE <<Head(s)>> \o StripAnsi(Tail(s))

StripAnsi(s) ==
    IF s = <<>> THEN <<>>
    ELSE IF Head(s) = "ESC" THEN StripAnsiAt(s, AnsiMatchLen(s))
    ELSE <<Head(s)>> \o StripAnsi(Tail(s))

TextKeyValue(info, key, value) ==
    IF key # <<>> /\ value # <<>> THEN Insert(info, key, value) ELSE info

TextLineAt(info, line, colon_pos) ==
    IF colon_pos = 0 THEN info
    ELSE TextKeyValue(info, Trim(SubSeq(line, 1, colon_pos - 1)),
                      Trim(SubSeq(line, colon_pos + 1, Len(line))))

TextLine(info, line) == TextLineAt(info, line, Find(line, ":"))

RECURSIVE TextLoop(_, _)
TextLoop(info, lines) ==
    IF lines = <<>> THEN info ELSE TextLoop(TextLine(info, Head(lines)), Tail(lines))

parse_fastfetch_text(output_str) == Ok(TextLoop(EmptyMap, Lines(StripAnsi(output_str))))

(***************************************************************************)
(* get_fastfetch_info                                                      *)
(***************************************************************************)
(* The stdout of a run whose text is the JSON document `value`; the text   *)
(* of a Stdout(..) of this model is never valid JSON                       *)
JsonStdout(value) == [spawned |-> TRUE, json |-> TRUE, value |-> value]

(* serde_json::from_str::<serde_json::Value>(&output_str).ok() *)
FromStr(output) == IF "json" \in DOMAIN output THEN Some(output.value) ELSE None

FastfetchParse(output, json_data) ==
    IF json_data.some THEN parse_fastfetch_json(json_data.v)
    ELSE parse_fastfetch_text(output.stdout)

(* `fastfetch --format json`, or_else `fastfetch --logo none` *)
get_fastfetch_info(h) ==
    IF h.fastfetch_json.spawned
    THEN [out |-> FastfetchParse(h.fastfetch_json, FromStr(h.fastfetch_json)),
          log |-> <<Cmd("fastfetch --format json", <<>>)>>]
    ELSE IF h.fastfetch_plain.spawned
    THEN [out |-> FastfetchParse(h.fastfetch_plain, FromStr(h.fastfetch_plain)),
          log |-> <<Cmd("fastfetch --format json", <<>>), Cmd("fastfetch --logo none", <<>>)>>]
    ELSE [out |-> Err("Failed to run fastfetch. Please make sure fastfetch is installed."),
          log |-> <<Cmd("fastfetch --format json", <<>>), Cmd("fastfetch --logo none", <<>>)>>]

(* the row test taking any mountpoint that starts with `/` *)
StartupDiskRow_AnySlash(parts) ==
    IF parts # <<>> /\ StartsWith(parts[1], <<"/">>)
    THEN (IF Len(parts) >= 3 THEN Some(JoinSp(SubSeq(parts, 3, Len(parts))))
          ELSE IF Len(parts) >= 2 THEN Some(parts[2])
          ELSE None)
    ELSE None

(***************************************************************************)
(* get_startup_disk                                                        *)
(***************************************************************************)
StartupDiskRow(parts) ==
    IF parts # <<>> /\ parts[1] = <<"/">>
    THEN (IF Len(parts) >= 3 THEN Some(JoinSp(SubSeq(parts, 3, Len(parts))))
          ELSE IF Len(parts) >= 2 THEN Some(parts[2])
          ELSE None)
    ELSE None

RECURSIVE StartupDiskLoop(_)
StartupDiskFirst(lines, v) == IF v.some THEN v.v ELSE StartupDiskLoop(Tail(lines))

StartupDiskLoop(lines) ==
    IF lines = <<>> THEN S_Unknown
    ELSE StartupDiskFirst(lines, StartupDiskRow(SplitWhitespace(Head(lines))))

get_startup_disk(h) ==
    [out |-> IF ~h.lsblk_list.spawned THEN Err("Failed to run lsblk")
             ELSE Ok(StartupDiskLoop(Lines(h.lsblk_list.stdout))),
     log |-> <<Cmd("lsblk -o mountpoint,name,label --list", <<>>)>>]

(***************************************************************************)
(* SystemInfo::detect                                                      *)
(***************************************************************************)
Env(name) == [kind |-> "env", name |-> name, target |-> <<>>]

S_UnknownHost == <<"U","n","k","n","o","w","n"," ","H","o","s","t">>

S_UnknownCPU == <<"U","n","k","n","o","w","n"," ","C","P","U">>

S_UnknownGraphics == <<"U","n","k","n","o","w","n"," ","G","r","a","p","h","i","c","s">>

(* the hostname lookup running `hostname` a second time *)
HostnameFromEnv_Retry(h) ==
    IF h.env_hostname.some
    THEN [out |-> Ok(h.env_hostname.v), log |-> <<Env("HOSTNAME")>>]
    ELSE [out |-> Ok(IF h.hostname_cmd.spawned THEN Trim(h.hostname_cmd.stdout) ELSE S_UnknownHost),
          log |-> <<Env("HOSTNAME"), Cmd("hostname", <<>>), Cmd("hostname", <<>>)>>]

(* std::env::var("HOSTNAME").or_else(|_| `hostname`).unwrap_or_else(..) *)
HostnameFromEnv(h) ==
    IF h.env_hostname.some
    THEN [out |-> Ok(h.env_hostname.v), log |-> <<Env("HOSTNAME")>>]
    ELSE [out |-> Ok(IF h.hostname_cmd.spawned THEN Trim(h.hostname_cmd.stdout) ELSE S_UnknownHost),
          log |-> <<Env("HOSTNAME"), Cmd("hostname", <<>>)>>]

(* fastfetch_info.get("Host").cloned().unwrap_or_else(|| ...) *)
HostnameChain(h, fastfetch_info) ==
    IF K_Host \in DOMAIN fastfetch_info
    THEN [out |-> Ok(fastfetch_info[K_Host]), log |-> <<>>]
    ELSE HostnameFromEnv(h)

(* Reverse the order if it contains @ (frequency) *)
ReorderParts(cpu_info, parts) ==
    IF Len(parts) = 2 THEN Trim(parts[2]) \o <<" ">> \o Trim(parts[1]) ELSE cpu_info

ReorderCpu(cpu_info) ==
    IF Contains(cpu_info, <<"@">>) THEN ReorderParts(cpu_info, Split(cpu_info, "@")) ELSE cpu_info

CpuField(fastfetch_info) ==
    IF K_CPU \in DOMAIN fastfetch_info THEN ReorderCpu(fastfetch_info[K_CPU]) ELSE S_UnknownCPU

GraphicsField(fastfetch_info) == UnwrapOr(Get(fastfetch_info, K_GPU), S_UnknownGraphics)

(* get_serial_number().unwrap_or_else(|_| "Unknown".to_string()) *)
SerialOrUnknown(r) ==
    IF r.out.kind = "Err" THEN [out |-> Ok(S_Unknown), log |-> r.log] ELSE r

(* One `let` of detect: a value that is not Ok (the Err of `?`, a panic)   *)
(* ends the call, otherwise the field is bound                             *)
Then(acc, field, r) ==
    IF acc.out.kind # "Ok" THEN acc
    ELSE IF r.out.kind # "Ok" THEN [out |-> r.out, log |-> acc.log \o r.log]
    ELSE [out |-> Ok([x \in (DOMAIN acc.out.val) \cup {field} |->
                          IF x = field THEN r.out.val ELSE acc.out.val[x]]),
          log |-> acc.log \o r.log]

SystemInfoRecord(fastfetch_info, acc) ==
    IF acc.out.kind # "Ok" THEN acc
    ELSE [out |-> Ok([hostname      |-> acc.out.val.hostname,
                      cpu           |-> CpuField(fastfetch_info),
                      memory        |-> acc.out.val.memory,
                      startup_disk  |-> acc.out.val.startup_disk,
                      graphics      |-> GraphicsField(fastfetch_info),
                      serial_number |-> acc.out.val.serial_number]),
          log |-> acc.log]

SystemInfoFrom(h, fastfetch_info, log) ==
    SystemInfoRecord(fastfetch_info,
        Then(Then(Then(Then([out |-> Ok(EmptyMap), log |-> log],
                            "memory", get_memory_info(h)),
                       "startup_disk", get_startup_disk(h)),
                  "serial_number", SerialOrUnknown(get_serial_number(h))),
             "hostname", HostnameChain(h, fastfetch_info)))

(* let fastfetch_info = get_fastfetch_info()?; *)
SystemInfoAfterFastfetch(h, ff) ==
    IF ff.out.kind # "Ok" THEN ff ELSE SystemInfoFrom(h, ff.out.val, ff.log)

SystemInfo_detect(h) == SystemInfoAfterFastfetch(h, get_fastfetch_info(h))


(***************************************************************************)
(* Hosts of SystemInfo::detect                                             *)
(***************************************************************************)
FastfetchJsonOutputs ==
    { SpawnFail,
      JsonStdout(JArr(<<JsonItemOf(<<"T","i","t","l","e">>, JObj(TitleFull)),
                        JsonItemOf(K_CPU, JObj(CpuFull)),
                        JsonItemOf(K_GPU, JArr(<<JObj(GpuFull)>>))>>)),
      JsonStdout(JArr(<<JsonItemOf(K_CPU, JObj([CpuFull EXCEPT !.frequency = JNull]))>>)),
      JsonStdout(JArr(<<JsonItemOf(<<"T","i","t","l","e">>, JObj(Restrict(TitleFull, {"hostName"})))>>)),
      JsonStdout(JArr(<<JsonItemOf(<<"T","i","t","l","e">>, JObj(TitleFull))>>)),
      Stdout(<<"ESC","[","1","m","H","o","s","t","ESC","[","0","m",":"," ","p","c","9","\n","C","P","U",":"," ","A","M","D"," ","R","y","z","e","n"," ","5"," ","@"," ","3",".","6","G","H","z","\n">>) }

FastfetchPlainOutputs ==
    { SpawnFail,
      Stdout(<<"O","S",":"," ","L","i","n","u","x","\n","C","P","U",":"," ","A","M","D"," ","R","y","z","e","n"," ","5","\n","G","P","U",":"," ","R","a","d","e","o","n","\n">>) }

LsblkListOutputs ==
    { SpawnFail,
      Stdout(<<"M","O","U","N","T","P","O","I","N","T"," ","N","A","M","E"," ","L","A","B","E","L","\n"," "," "," "," "," "," "," "," "," "," "," ","s","d","a","\n","/","b","o","o","t"," "," "," "," "," "," ","s","d","a","1","\n","/"," "," "," "," "," "," "," "," "," "," ","s","d","a","2"," ","r","o","o","t"," ","f","s","\n">>),
      Stdout(<<"M","O","U","N","T","P","O","I","N","T"," ","N","A","M","E"," ","L","A","B","E","L","\n","/"," "," "," "," "," "," "," "," "," "," ","n","v","m","e","0","n","1","p","2","\n">>),
      Stdout(<<"M","O","U","N","T","P","O","I","N","T"," ","N","A","M","E"," ","L","A","B","E","L","\n"," "," "," "," "," "," "," "," "," "," "," ","s","d","a","\n"," "," "," "," "," "," "," "," "," "," "," ","s","d","b","1"," ","/","\n">>) }

EnvHostnames == { None, Some(<<>>), Some(<<"b","o","x">>) }

HostnameOutputs == { SpawnFail, Stdout(<<"b","o","x","2","\n">>) }

SystemHosts ==
    [fastfetch_json      : FastfetchJsonOutputs,
     fastfetch_plain     : FastfetchPlainOutputs,
     meminfo             : {[readable |-> FALSE, memtotal_kb |-> 0], MeminfoWith(16252928)},
     dmidecode_memory    : {Stdout(<<"M","e","m","o","r","y"," ","D","e","v","i","c","e","\n","\t","T","y","p","e",":"," ","D","D","R","4","\n","\t","S","p","e","e","d",":"," ","3","2","0","0"," ","M","T","/","s","\n">>)},
     lshw_memory         : {SpawnFail},
     free                : {SpawnFail, Stdout(<<" "," "," "," "," "," ","t","o","t","a","l"," ","u","s","e","d","\n","M","e","m",":"," "," ","1","5","G","i"," ","4","G","i","\n">>)},
     lsblk_list          : LsblkListOutputs,
     dmidecode_baseboard : {SpawnFail, Stdout(<<"\t","S","e","r","i","a","l"," ","N","u","m","b","e","r",":"," ","P","F","1","2","\n">>)},
     board_serial        : {Unreadable},
     product_serial      : {Unreadable},
     lshw_system         : {SpawnFail},
     machine_id          : {Unreadable, File(<<"a","b","c","\n">>), File(IdChars \o <<"\n">>)},
     env_hostname        : EnvHostnames,
     hostname_cmd        : HostnameOutputs]

InitSystem == host \in SystemHosts /\ calls = <<>>

DetectSystem ==
    /\ Len(calls) < MaxCalls
    /\ calls' = Append(calls, SystemInfo_detect(host))
    /\ UNCHANGED host

NextSystem == DetectSystem

SpecSystem == InitSystem /\ [][NextSystem]_vars

(***************************************************************************)
(* Hosts of the CPU field                                                  *)
(***************************************************************************)
(* fastfetch reports a CPU name of up to MaxCpuLen characters, with or     *)
(* without a frequency; lsblk runs, every other source is unavailable.     *)
MaxCpuLen == 4

CpuNames == SeqsUpTo({"a", " ", "@"}, MaxCpuLen)

CpuDocs ==
    {JArr(<<JsonItemOf(K_CPU, JObj([cpu |-> JStr(name), cores |-> JNull, frequency |-> freq]))>>) :
        name \in CpuNames, freq \in {JNull, CpuFull.frequency}}

CpuHosts ==
    [fastfetch_json      : {JsonStdout(doc) : doc \in CpuDocs},
     fastfetch_plain     : {SpawnFail},
     meminfo             : {[readable |-> FALSE, memtotal_kb |-> 0]},
     dmidecode_memory    : {SpawnFail},
     lshw_memory         : {SpawnFail},
     free                : {SpawnFail},
     lsblk_list          : {Stdout(<<>>)},
     dmidecode_baseboard : {SpawnFail},
     board_serial        : {Unreadable},
     product_serial      : {Unreadable},
     lshw_system         : {SpawnFail},
     machine_id          : {Unreadable},
     env_hostname        : {None},
     hostname_cmd        : {SpawnFail}]

InitCpu == host \in CpuHosts /\ calls = <<>>

DetectCpu ==
    /\ Len(calls) < MaxCalls
    /\ calls' = Append(calls, SystemInfo_detect(host))
    /\ UNCHANGED host

NextCpu == DetectCpu

SpecCpu == InitCpu /\ [][NextCpu]_vars

(***************************************************************************)
(* Properties of SystemInfo::detect                                        *)
(***************************************************************************)
(* C1: SystemInfo::detect returns a record, not an error, in every host    *)
(* state, also when neither fastfetch invocation or when lsblk can be      *)
(* spawned.                                                                *)
C1_DetectNeverErr ==
    \A n \in 1..Len(calls) : calls[n].out.kind # "Err"

(* the raw CPU string: the CPU value of the fastfetch map *)
RawCpu(h) == get_fastfetch_info(h).out.val[K_CPU]

BeforeFirst(s, c) == SubSeq(s, 1, Find(s, c) - 1)

AfterFirst(s, c) == SubSeq(s, Find(s, c) + 1, Len(s))

(* C7: a raw CPU string with at least one `@` becomes                      *)
(* trim(text after the first `@`) + " " + trim(text before the first `@`); *)
(* one without `@` is returned unchanged.                                  *)
C7_CpuReorder ==
    \A n \in 1..Len(calls) :
        calls[n].out.kind = "Ok" =>
            calls[n].out.val.cpu =
                IF Find(RawCpu(host), "@") # 0
                THEN Trim(AfterFirst(RawCpu(host), "@")) \o <<" ">> \o Trim(BeforeFirst(RawCpu(host), "@"))
                ELSE RawCpu(host)


(***************************************************************************)
(* Storage                                                                 *)
(***************************************************************************)
detect_storage_interface(device_name) ==
    IF StartsWith(device_name, <<"n","v","m","e">>) THEN <<"N","V","M","e">>
    ELSE IF StartsWith(device_name, <<"s","d">>) THEN <<"S","A","T","A","/","U","S","B">>
    ELSE IF StartsWith(device_name, <<"h","d">>) THEN <<"I","D","E","/","P","A","T","A">>
    ELSE IF StartsWith(device_name, <<"m","m","c">>) THEN <<"e","M","M","C","/","S","D">>
    ELSE S_Unknown

StorageTypeOfLower(device_name, model_lower) ==
    IF StartsWith(device_name, <<"n","v","m","e">>) THEN <<"N","V","M","e"," ","S","S","D">>
    ELSE IF Contains(model_lower, <<"s","s","d">>) \/ Contains(model_lower, <<"s","o","l","i","d"," ","s","t","a","t","e">>) THEN <<"S","S","D">>
    ELSE IF Contains(model_lower, <<"h","d","d">>) \/ Contains(model_lower, <<"h","a","r","d"," ","d","i","s","k">>) THEN <<"H","D","D">>
    ELSE IF StartsWith(device_name, <<"m","m","c">>) THEN <<"e","M","M","C">>
    ELSE IF StartsWith(device_name, <<"s","d">>) THEN <<"D","i","s","k">>
    ELSE S_Unknown

(* detect_storage_type matching the model as written, without lower-casing *)
detect_storage_type_CaseSensitive(device_name, model) == StorageTypeOfLower(device_name, model)

detect_storage_type(device_name, model) == StorageTypeOfLower(device_name, ToLowercase(model))

S_dev == <<"/","d","e","v","/">>

(* for line in output_str.lines(): the first line holding `needle` that    *)
(* has a field after its first `:` gives that field, trimmed               *)
ColonFieldOf(line, needle, parts) ==
    IF Contains(line, needle) /\ Len(parts) >= 2 THEN Some(Trim(parts[2])) ELSE None

RECURSIVE ColonFieldLoop(_, _)
ColonFieldFirst(lines, needle, v) == IF v.some THEN v ELSE ColonFieldLoop(Tail(lines), needle)

ColonFieldLoop(lines, needle) ==
    IF lines = <<>> THEN None
    ELSE ColonFieldFirst(lines, needle, ColonFieldOf(Head(lines), needle, Split(Head(lines), ":")))

SmartctlTempOf(line, parts) ==
    IF Contains(line, <<"T","e","m","p","e","r","a","t","u","r","e","_","C","e","l","s","i","u","s">>) /\ Len(parts) > 9
    THEN Some(parts[10] \o <<"°","C">>)
    ELSE None

RECURSIVE SmartctlTempLoop(_)
SmartctlTempFirst(lines, v) == IF v.some THEN v ELSE SmartctlTempLoop(Tail(lines))

SmartctlTempLoop(lines) ==
    IF lines = <<>> THEN None
    ELSE SmartctlTempFirst(lines, SmartctlTempOf(Head(lines), SplitWhitespace(Head(lines))))

get_device_temperature(h, device_name) ==
    IF StartsWith(device_name, <<"n","v","m","e">>)
    THEN [v   |-> IF h.nvme_smart_log.spawned
                  THEN ColonFieldLoop(Lines(h.nvme_smart_log.stdout), <<"t","e","m","p","e","r","a","t","u","r","e">>)
                  ELSE None,
          log |-> <<Cmd("nvme smart-log", S_dev \o device_name)>>]
    ELSE [v   |-> IF h.smartctl_A.spawned THEN SmartctlTempLoop(Lines(h.smartctl_A.stdout)) ELSE None,
          log |-> <<Cmd("smartctl -A", S_dev \o device_name)>>]

get_device_health(h, device_name) ==
    [v   |-> IF h.smartctl_H.spawned
             THEN ColonFieldLoop(Lines(h.smartctl_H.stdout), <<"S","M","A","R","T"," ","o","v","e","r","a","l","l","-","h","e","a","l","t","h">>)
             ELSE None,
     log |-> <<Cmd("smartctl -H", S_dev \o device_name)>>]

(* devices.push(StorageDevice { .. }): temperature, then health *)
PushDevice(acc, dev, temperature, health) ==
    [devices |-> Append(acc.devices,
                        [name        |-> S_dev \o dev.name,
                         model       |-> dev.model,
                         size        |-> dev.size,
                         device_type |-> detect_storage_type(dev.name, dev.model),
                         interface   |-> detect_storage_interface(dev.name),
                         serial      |-> dev.serial,
                         temperature |-> temperature.v,
                         health      |-> health.v]),
     log     |-> acc.log \o temperature.log \o health.log]

(* the push made for every listed device, loop and non-disk devices included *)
AddDevice_NoFilter(h, acc, dev) ==
    PushDevice(acc, dev, get_device_temperature(h, dev.name), get_device_health(h, dev.name))

(* Skip loop devices and other virtual devices *)
AddDevice(h, acc, dev) ==
    IF dev.device_type = <<"d","i","s","k">> /\ ~StartsWith(dev.name, <<"l","o","o","p">>)
    THEN PushDevice(acc, dev, get_device_temperature(h, dev.name), get_device_health(h, dev.name))
    ELSE acc

(* device["name"].as_str().unwrap_or("Unknown") and the like *)
JsonDevice(device) ==
    [name        |-> UnwrapOr(AsStr(ValueIndex(device, "name")), S_Unknown),
     size        |-> UnwrapOr(AsStr(ValueIndex(device, "size")), S_Unknown),
     device_type |-> UnwrapOr(AsStr(ValueIndex(device, "type")), <<"d","i","s","k">>),
     model       |-> UnwrapOr(AsStr(ValueIndex(device, "model")), S_Unknown),
     serial      |-> UnwrapOr(AsStr(ValueIndex(device, "serial")), S_Unknown)]

RECURSIVE JsonDevicesLoop(_, _, _)
JsonDevicesLoop(h, acc, blockdevices) ==
    IF blockdevices = <<>> THEN acc
    ELSE JsonDevicesLoop(h, AddDevice(h, acc, JsonDevice(Head(blockdevices))), Tail(blockdevices))

JsonBlockdevices(h, acc, blockdevices) ==
    IF blockdevices.t = "arr" THEN JsonDevicesLoop(h, acc, blockdevices.a) ELSE acc

JsonDevicesOf(h, acc, json_data) ==
    IF json_data.some THEN JsonBlockdevices(h, acc, ValueIndex(json_data.v, "blockdevices")) ELSE acc

(* Get block devices using lsblk *)
DevicesFromJson(h, acc) ==
    IF h.lsblk_json.spawned THEN JsonDevicesOf(h, acc, FromStr(h.lsblk_json)) ELSE acc

TextDevice(parts) ==
    [name        |-> parts[1],
     size        |-> parts[2],
     device_type |-> parts[3],
     model       |-> IF Len(parts) > 3 THEN JoinSp(SubSeq(parts, 4, Len(parts))) ELSE S_Unknown,
     serial      |-> S_Unknown]

TextDeviceRow(h, acc, parts) ==
    IF Len(parts) >= 3 THEN AddDevice(h, acc, TextDevice(parts)) ELSE acc

RECURSIVE TextDevicesLoop(_, _, _)
TextDevicesLoop(h, acc, lines) ==
    IF lines = <<>> THEN acc
    ELSE TextDevicesLoop(h, TextDeviceRow(h, acc, SplitWhitespace(Head(lines))), Tail(lines))

(* Iterator::skip(1) *)
Skip1(lines) == IF lines = <<>> THEN <<>> ELSE Tail(lines)

FallbackResult(acc) == [out |-> Ok(acc.devices), log |-> acc.log]

detect_storage_devices_fallback(h) ==
    IF ~h.lsblk_text.spawned
    THEN [out |-> Err("Failed to run lsblk"),
          log |-> <<Cmd("lsblk -d -o NAME,SIZE,TYPE,MODEL", <<>>)>>]
    ELSE FallbackResult(
             TextDevicesLoop(h, [devices |-> <<>>,
                                 log |-> <<Cmd("lsblk -d -o NAME,SIZE,TYPE,MODEL", <<>>)>>],
                             Skip1(Lines(h.lsblk_text.stdout))))

WithLogBefore(log, r) == [out |-> r.out, log |-> log \o r.log]

(* Fallback to basic detection if JSON parsing fails *)
DevicesOrFallback(h, acc) ==
    IF acc.devices = <<>> THEN WithLogBefore(acc.log, detect_storage_devices_fallback(h))
    ELSE [out |-> Ok(acc.devices), log |-> acc.log]

detect_storage_devices(h) ==
    DevicesOrFallback(h,
        DevicesFromJson(h, [devices |-> <<>>,
                            log |-> <<Cmd("lsblk -d -o NAME,SIZE,TYPE,MODEL,SERIAL --json", <<>>)>>]))

(* The value of [+-]digits[.digits] in thousandths (the fraction is cut    *)
(* after the third digit)                                                  *)
FractionMilli(ds) == DigitsValue(SubSeq(ds \o <<"0","0","0">>, 1, 3))

UnsignedMilliAt(u, dot) ==
    IF dot = 0 THEN 1000 * DigitsValue(u)
    ELSE 1000 * DigitsValue(SubSeq(u, 1, dot - 1)) + FractionMilli(SubSeq(u, dot + 1, Len(u)))

UnsignedMilli(u) == UnsignedMilliAt(u, Find(u, "."))

(* usage_percent_str.parse::<f32>().unwrap_or(0.0), in thousandths *)
ParseF32OrZero(s) ==
    IF ~ParsesAsF64(s) THEN 0
    ELSE IF Head(s) = "-" THEN 0 - UnsignedMilli(Tail(s))
    ELSE IF Head(s) = "+" THEN UnsignedMilli(Tail(s))
    ELSE UnsignedMilli(s)

NewFilesystem(parts) ==
    [device          |-> parts[1],
     mountpoint      |-> parts[7],
     filesystem_type |-> parts[2],
     total_size      |-> parts[3],
     used_size       |-> parts[4],
     available_size  |-> parts[5],
     usage_percent   |-> ParseF32OrZero(ReplaceSub(parts[6], <<"%">>, <<>>))]

(* Skip special filesystems *)
FilesystemRow(filesystems, parts) ==
    IF Len(parts) >= 7
       /\ (StartsWith(parts[1], S_dev) \/ StartsWith(parts[1], <<"t","m","p","f","s">>))
    THEN Append(filesystems, NewFilesystem(parts))
    ELSE filesystems

RECURSIVE FilesystemsLoop(_, _)
FilesystemsLoop(filesystems, lines) ==
    IF lines = <<>> THEN filesystems
    ELSE FilesystemsLoop(FilesystemRow(filesystems, SplitWhitespace(Head(lines))), Tail(lines))

detect_filesystems(h) ==
    [out |-> IF ~h.df.spawned THEN Err("Failed to run df command")
             ELSE Ok(FilesystemsLoop(<<>>, Skip1(Lines(h.df.stdout)))),
     log |-> <<Cmd("df -h -T", <<>>)>>]

StorageAfterFilesystems(devices, filesystems) ==
    [out |-> IF filesystems.out.kind = "Ok"
             THEN Ok([devices |-> devices.out.val, filesystems |-> filesystems.out.val])
             ELSE filesystems.out,
     log |-> devices.log \o filesystems.log]

(* let devices = detect_storage_devices()?; *)
StorageAfterDevices(h, devices) ==
    IF devices.out.kind = "Ok" THEN StorageAfterFilesystems(devices, detect_filesystems(h))
    ELSE devices

StorageInfo_detect(h) == StorageAfterDevices(h, detect_storage_devices(h))

(***************************************************************************)
(* Hosts of StorageInfo::detect                                            *)
(***************************************************************************)
(* lsblk lists up to MaxDevices devices as JSON and up to MaxRows rows as  *)
(* text; the SMART tools answer alike for every device.                    *)
MaxDevices == 2

MaxRows == 1

BlockDevices ==
    { JObj([name |-> JStr(<<"s","d","a">>), size |-> JStr(<<"5","0","0","G">>), type |-> JStr(<<"d","i","s","k">>),
            model |-> JStr(<<"S","a","m","s","u","n","g"," ","S","S","D"," ","8","6","0">>), serial |-> JStr(<<"S","1">>)]),
      JObj([name |-> JStr(<<"n","v","m","e","0","n","1">>), size |-> JStr(<<"1","T">>), type |-> JStr(<<"d","i","s","k">>),
            model |-> JNull, serial |-> JNull]),
      JObj([name |-> JStr(<<"l","o","o","p","0">>), size |-> JStr(<<"4","M">>), type |-> JStr(<<"l","o","o","p">>),
            model |-> JNull, serial |-> JNull]),
      JObj([name |-> JStr(<<"s","r","0">>), size |-> JStr(<<"1","G">>), type |-> JStr(<<"r","o","m">>),
            model |-> JStr(<<"D","V","D","-","R","W">>), serial |-> JNull]) }

LsblkJsonOutputs ==
    { SpawnFail, Stdout(<<>>), JsonStdout(JObj([blockdevices |-> JNull])) }
        \cup {JsonStdout(JObj([blockdevices |-> JArr(ds)])) : ds \in SeqsUpTo(BlockDevices, MaxDevices)}

LsblkTextRows ==
    { <<"s","d","b"," "," ","2","T"," ","d","i","s","k"," ","W","D","C"," ","H","a","r","d"," ","D","i","s","k","\n">>,
      <<"l","o","o","p","1"," ","8","M"," ","l","o","o","p","\n">>,
      <<"m","m","c","b","l","k","0"," ","3","2","G"," ","d","i","s","k","\n">> }

LsblkTextOutputs ==
    { SpawnFail, Stdout(<<>>) }
        \cup {Stdout(<<"N","A","M","E"," ","S","I","Z","E"," ","T","Y","P","E"," ","M","O","D","E","L","\n">> \o Flatten(rows)) : rows \in SeqsUpTo(LsblkTextRows, MaxRows)}

SmartTools ==
    { [nvme_smart_log |-> SpawnFail, smartctl_A |-> SpawnFail, smartctl_H |-> SpawnFail],
      [nvme_smart_log |-> Stdout(<<"c","r","i","t","i","c","a","l","_","w","a","r","n","i","n","g"," ",":"," ","0","\n","t","e","m","p","e","r","a","t","u","r","e"," ",":"," ","3","5"," ","C","\n">>), smartctl_A |-> Stdout(<<"1","9","4"," ","T","e","m","p","e","r","a","t","u","r","e","_","C","e","l","s","i","u","s"," ","0","x","0","0","2","2"," ","0","6","7"," ","0","5","5"," ","0","0","0"," ","O","l","d","_","a","g","e"," ","A","l","w","a","y","s"," ","-"," ","3","3","\n">>), smartctl_H |-> Stdout(<<"S","M","A","R","T"," ","o","v","e","r","a","l","l","-","h","e","a","l","t","h"," ","s","e","l","f","-","a","s","s","e","s","s","m","e","n","t"," ","t","e","s","t"," ","r","e","s","u","l","t",":"," ","P","A","S","S","E","D","\n">>)],
      [nvme_smart_log |-> Stdout(<<"c","r","i","t","i","c","a","l","_","w","a","r","n","i","n","g"," ",":"," ","0","\n">>), smartctl_A |-> Stdout(<<"1","9","4"," ","T","e","m","p","e","r","a","t","u","r","e","_","C","e","l","s","i","u","s"," ","0","x","0","0","2","2"," ","0","6","7"," ","0","5","5"," ","0","0","0"," ","O","l","d","_","a","g","e"," ","A","l","w","a","y","s"," ","-"," ","3","3","\n">>), smartctl_H |-> Stdout(<<"S","M","A","R","T"," ","o","v","e","r","a","l","l","-","h","e","a","l","t","h"," ","s","e","l","f","-","a","s","s","e","s","s","m","e","n","t","\n">>)] }

DfOutputs ==
    { SpawnFail,
      Stdout(<<"F","i","l","e","s","y","s","t","e","m"," ","T","y","p","e"," ","S","i","z","e"," ","U","s","e","d"," ","A","v","a","i","l"," ","U","s","e","%"," ","M","o","u","n","t","e","d"," ","o","n","\n","/","d","e","v","/","s","d","a","2"," ","e","x","t","4"," ","4","5","7","G"," ","1","2","0","G"," ","3","1","4","G"," ","2","8","%"," ","/","\n","t","m","p","f","s"," ","t","m","p","f","s"," ","7",".","8","G"," ","0"," ","7",".","8","G"," ","0","%"," ","/","d","e","v","/","s","h","m","\n","p","r","o","c"," ","p","r","o","c"," ","0"," ","0"," ","0"," ","-"," ","/","p","r","o","c","\n">>),
      Stdout(<<"F","i","l","e","s","y","s","t","e","m"," ","T","y","p","e"," ","S","i","z","e"," ","U","s","e","d"," ","A","v","a","i","l"," ","U","s","e","%"," ","M","o","u","n","t","e","d"," ","o","n","\n","/","d","e","v","/","s","d","b","1"," ","v","f","a","t"," ","1","G"," ","1","G"," ","0"," ","1","0","0",".","5","%"," ","/","m","n","t","\n","/","d","e","v","/","s","d","c","1"," ","e","x","t","4"," ","1","G","\n">>) }

StorageHosts ==
    {[lsblk_json |-> j, lsblk_text |-> t, nvme_smart_log |-> s.nvme_smart_log,
      smartctl_A |-> s.smartctl_A, smartctl_H |-> s.smartctl_H, df |-> d] :
        j \in LsblkJsonOutputs, t \in LsblkTextOutputs, s \in SmartTools, d \in DfOutputs}

InitStorage == host \in StorageHosts /\ calls = <<>>

DetectStorage ==
    /\ Len(calls) < MaxCalls
    /\ calls' = Append(calls, StorageInfo_detect(host))
    /\ UNCHANGED host

NextStorage == DetectStorage

SpecStorage == InitStorage /\ [][NextStorage]_vars

(***************************************************************************)
(* Properties of StorageInfo::detect                                       *)
(***************************************************************************)
(* C3: StorageInfo::detect never returns an error: when lsblk cannot be    *)
(* spawned devices is the empty list, and when df cannot be spawned        *)
(* filesystems is the empty list, each independently of the other.         *)
C3_StorageNeverErr ==
    \A n \in 1..Len(calls) :
        /\ calls[n].out.kind = "Ok"
        /\ (~host.lsblk_json.spawned /\ ~host.lsblk_text.spawned) => calls[n].out.val.devices = <<>>
        /\ ~host.df.spawned => calls[n].out.val.filesystems = <<>>

(***************************************************************************)
(* Reading an output listing by blocks: a header is a non-indented line,   *)
(* the indented lines under it are its block                               *)
(***************************************************************************)
Indented(line) == line # <<>> /\ line[1] \in WS

StartsBlock(line) == Trim(line) # <<>> /\ ~Indented(line)

(* the header lines of xrandr marked `connected` *)
ConnectedHeaders(lines) ==
    {i \in 1..Len(lines) :
        /\ StartsBlock(lines[i])
        /\ Len(SplitWhitespace(lines[i])) >= 2
        /\ SplitWhitespace(lines[i])[2] = <<"c","o","n","n","e","c","t","e","d">>}

(* the k-th smallest element of a set of numbers *)
NthOf(S, k) == CHOOSE x \in S : Cardinality({y \in S : y < x}) = k - 1

(* the last line of the block whose header is line i *)
BlockEnd(lines, i) ==
    IF \E j \in (i + 1)..Len(lines) : StartsBlock(lines[j])
    THEN (CHOOSE j \in (i + 1)..Len(lines) :
             /\ StartsBlock(lines[j])
             /\ \A k \in (i + 1)..(j - 1) : ~StartsBlock(lines[k])) - 1
    ELSE Len(lines)

StarredIn(lines, i) == {j \in (i + 1)..BlockEnd(lines, i) : Contains(lines[j], <<"*">>)}

(* the resolution of the block whose header is line i *)
BlockResolution(lines, i) ==
    IF StarredIn(lines, i) = {} THEN S_Unknown
    ELSE SplitWhitespace(lines[NthOf(StarredIn(lines, i), 1)])[1]

MarkedPrimary(line) ==
    \E t \in 1..Len(SplitWhitespace(line)) : SplitWhitespace(line)[t] = <<"p","r","i","m","a","r","y">>

XrandrRecordsMatch(displays, lines) ==
    /\ Len(displays) = Cardinality(ConnectedHeaders(lines))
    /\ \A k \in 1..Len(displays) :
          /\ displays[k].is_primary = MarkedPrimary(lines[NthOf(ConnectedHeaders(lines), k)])
          /\ displays[k].resolution = BlockResolution(lines, NthOf(ConnectedHeaders(lines), k))

(* C11: xrandr parsing.  Whenever xrandr ran, the records it yields are    *)
(* one per header line marked `connected`, in order; a record is primary   *)
(* exactly when its header is marked `primary`; and its resolution is the  *)
(* first token of the starred mode line of its own block, or "Unknown"     *)
(* when the block has no starred line.                                     *)
C11_XrandrRecords ==
    \A n \in 1..Len(calls) :
        host.xrandr.spawned =>
            /\ XrandrRecordsMatch(detect_displays_xrandr(host).out.val, Lines(host.xrandr.stdout))
            /\ Len(calls[n].log) = 1 =>
                  XrandrRecordsMatch(calls[n].out.val.displays, Lines(host.xrandr.stdout))

(* the output header lines of wlr-randr *)
WlrHeaders(lines) == {i \in 1..Len(lines) : StartsBlock(lines[i])}

WlrRecordsMatch(displays, lines) ==
    /\ Len(displays) = Cardinality(WlrHeaders(lines))
    /\ \A k \in 1..Len(displays) :
          /\ displays[k].name = SplitWhitespace(lines[NthOf(WlrHeaders(lines), k)])[1]
          /\ displays[k].resolution = BlockResolution(lines, NthOf(WlrHeaders(lines), k))
          /\ ~displays[k].is_primary

(* C12: wlr-randr parsing.  Whenever wlr-randr ran, it yields exactly one  *)
(* record per non-indented output header line; indented property and mode *)
(* lines start no record; the starred mode line sets the resolution of the *)
(* output whose block holds it; and no record is primary.                  *)
C12_WlrRecords ==
    \A n \in 1..Len(calls) :
        host.wlr.spawned =>
            /\ WlrRecordsMatch(detect_displays_wlr_randr(host).out.val, Lines(host.wlr.stdout))
            /\ (Consulted(calls[n], "wlr-randr") /\ ~Consulted(calls[n], "/sys/class/drm")) =>
                  WlrRecordsMatch(calls[n].out.val.displays, Lines(host.wlr.stdout))

(***************************************************************************)
(* Hosts of the storage classifiers: a device name and a model string      *)
(***************************************************************************)
(* Up to how many characters the generated model strings hold. *)
MaxModelLen == 3

ModelChars == {"s", "S", "d", "h", "D"}

DeviceNames ==
    { <<"n","v","m","e","0","n","1">>, <<"n","v","m","e">>, <<"s","d","a">>, <<"s","d","b","1">>, <<"h","d","a">>, <<"m","m","c","b","l","k","0">>, <<"v","d","a">>, <<"s","r","0">>, <<"S","D","A">>, <<"n","v","m">>, <<"x","s","d">>, <<>> }

DeviceModels ==
    SeqsUpTo(ModelChars, MaxModelLen)
        \cup { <<"S","a","m","s","u","n","g"," ","S","S","D"," ","8","6","0">>, <<"W","D","C"," ","H","a","r","d"," ","D","i","s","k">>, <<"S","T","1","0","0","0"," ","H","D","D">>, <<"S","o","l","i","d"," ","S","t","a","t","e"," ","D","r","i","v","e">>,
               <<"h","a","r","d"," "," ","d","i","s","k">>, <<"s","o","l","i","d","s","t","a","t","e">>, <<"U","n","k","n","o","w","n">>, <<"S","S","D"," ","H","D","D">>, <<"M","y"," ","H","a","r","d"," ","D","i","s","k"," ","S","S","D">> }

ClassifyHosts == [device_name : DeviceNames, model : DeviceModels]

InitClassify == host \in ClassifyHosts /\ calls = <<>>

(* let interface = detect_storage_interface(&name);                        *)
(* let storage_type = detect_storage_type(&name, &model);                  *)
DetectClassify ==
    /\ Len(calls) < MaxCalls
    /\ calls' = Append(calls,
                       [out |-> Ok([device_type |-> detect_storage_type(host.device_name, host.model),
                                    interface   |-> detect_storage_interface(host.device_name)]),
                        log |-> <<>>])
    /\ UNCHANGED host

NextClassify == DetectClassify

SpecClassify == InitClassify /\ [][NextClassify]_vars

(* the reference rules, on the name prefix and the case-folded model *)
HasPrefix(name, p) == Len(name) >= Len(p) /\ \A i \in 1..Len(p) : name[i] = p[i]

Mentions(model, word) ==
    \E i \in 0..(Len(model) - Len(word)) :
        \A j \in 1..Len(word) : ToLowercase(<<model[i + j]>>) = <<word[j]>>

TypeByRules(name, model) ==
    IF HasPrefix(name, <<"n","v","m","e">>) THEN <<"N","V","M","e"," ","S","S","D">>
    ELSE IF Mentions(model, <<"s","s","d">>) \/ Mentions(model, <<"s","o","l","i","d"," ","s","t","a","t","e">>) THEN <<"S","S","D">>
    ELSE IF Mentions(model, <<"h","d","d">>) \/ Mentions(model, <<"h","a","r","d"," ","d","i","s","k">>) THEN <<"H","D","D">>
    ELSE IF HasPrefix(name, <<"m","m","c">>) THEN <<"e","M","M","C">>
    ELSE IF HasPrefix(name, <<"s","d">>) THEN <<"D","i","s","k">>
    ELSE <<"U","n","k","n","o","w","n">>

InterfaceByRules(name) ==
    IF HasPrefix(name, <<"n","v","m","e">>) THEN <<"N","V","M","e">>
    ELSE IF HasPrefix(name, <<"s","d">>) THEN <<"S","A","T","A","/","U","S","B">>
    ELSE IF HasPrefix(name, <<"h","d">>) THEN <<"I","D","E","/","P","A","T","A">>
    ELSE IF HasPrefix(name, <<"m","m","c">>) THEN <<"e","M","M","C","/","S","D">>
    ELSE <<"U","n","k","n","o","w","n">>

(* C13: storage classification.  For every device name and model the type  *)
(* is "NVMe SSD" for a name starting with nvme, else "SSD" for a model     *)
(* holding "ssd" or "solid state" in any case, else "HDD" for "hdd" or     *)
(* "hard disk", else "eMMC" for prefix mmc, else "Disk" for prefix sd,     *)
(* else "Unknown"; the interface is "NVMe", "SATA/USB", "IDE/PATA",        *)
(* "eMMC/SD" for the prefixes nvme, sd, hd, mmc and "Unknown" otherwise.   *)
C13_StorageClassification ==
    \A n \in 1..Len(calls) :
        /\ calls[n].out.val.device_type = TypeByRules(host.device_name, host.model)
        /\ calls[n].out.val.interface = InterfaceByRules(host.device_name)

(* sda with a model holding "SSD" in upper case was classified *)
C13_Witness ==
    /\ Len(calls) >= 1
    /\ host.device_name = <<"s","d","a">>
    /\ host.model = <<"S","a","m","s","u","n","g"," ","S","S","D"," ","8","6","0">>
    /\ calls[1].out.val = [device_type |-> <<"S","S","D">>, interface |-> <<"S","A","T","A","/","U","S","B">>]

(* the block devices lsblk lists, by name and type, on either path *)
ListedByJson(h) ==
    IF /\ h.lsblk_json.spawned
       /\ "json" \in DOMAIN h.lsblk_json
       /\ h.lsblk_json.value.t = "obj"
       /\ h.lsblk_json.value.o.blockdevices.t = "arr"
    THEN {[name |-> d.o.name.s, type |-> d.o.type.s] :
             d \in {h.lsblk_json.value.o.blockdevices.a[i] :
                       i \in 1..Len(h.lsblk_json.value.o.blockdevices.a)}}
    ELSE {}

ListedByText(h) ==
    IF h.lsblk_text.spawned
    THEN {[name |-> SplitWhitespace(row)[1], type |-> SplitWhitespace(row)[3]] :
             row \in {Lines(h.lsblk_text.stdout)[i] : i \in 2..Len(Lines(h.lsblk_text.stdout))}}
    ELSE {}

Listed(h) == ListedByJson(h) \cup ListedByText(h)

LoopOrNotDisk(e) == HasPrefix(e.name, <<"l","o","o","p">>) \/ e.type # <<"d","i","s","k">>

(* C14: no StorageDevice of StorageInfo::detect comes from a block device  *)
(* whose name starts with "loop" or whose lsblk type is not "disk", on the *)
(* JSON path and on the plain-text path: every device returned is a listed *)
(* disk that is not a loop device, and no excluded entry is returned.      *)
C14_NoLoopNoNonDisk ==
    \A n \in 1..Len(calls) :
        calls[n].out.kind = "Ok" =>
            \A k \in 1..Len(calls[n].out.val.devices) :
                /\ \E e \in Listed(host) :
                      /\ calls[n].out.val.devices[k].name = <<"/","d","e","v","/">> \o e.name
                      /\ ~LoopOrNotDisk(e)
                /\ \A e \in Listed(host) :
                      LoopOrNotDisk(e) => calls[n].out.val.devices[k].name # <<"/","d","e","v","/">> \o e.name

(* lsblk listed a loop device and a disk as JSON, and only the disk came   *)
(* back                                                                    *)
C14_Witness ==
    /\ Len(calls) >= 1
    /\ calls[1].out.kind = "Ok"
    /\ \E e \in ListedByJson(host) : HasPrefix(e.name, <<"l","o","o","p">>)
    /\ \E e \in ListedByJson(host) : e.name = <<"s","d","a">>
    /\ Len(calls[1].out.val.devices) = 1
    /\ calls[1].out.val.devices[1].name = <<"/","d","e","v","/","s","d","a">>

(***************************************************************************)
(* Hosts of the connection-type classifier: a display name                 *)
(***************************************************************************)
(* Up to how many characters the generated display names hold. *)
MaxNameLen == 3

NameChars == {"d", "p", "e", "D", "P"}

DisplayNames ==
    SeqsUpTo(NameChars, MaxNameLen)
        \cup { <<"H","D","M","I","-","1">>, <<"H","D","M","I","-","A","-","1">>, <<"D","P","-","1">>, <<"e","D","P","-","1">>, <<"D","i","s","p","l","a","y","P","o","r","t","-","0">>, <<"V","G","A","-","1">>, <<"D","V","I","-","D","-","0">>, <<"D","V","I","-","I","-","1">>,
               <<"U","S","B","-","C","-","0">>, <<"L","V","D","S","-","1">>, <<"L","V","D","S","1">>, <<"V","i","r","t","u","a","l","-","1">>, <<"N","o","n","e","-","1">>, <<"h","d","m","i","-","d","p">>, <<"D","P","-","H","D","M","I">>, <<"u","s","b","-","v","g","a">>,
               <<"L","V","D","S","-","D","V","I">>, <<"d","v","i","-","u","s","b">>, <<"v","g","a","-","d","v","i">>, <<"d","i","s","p","l","a","y"," ","p","o","r","t">> }

ConnectionHosts == [display_name : DisplayNames]

InitConnection == host \in ConnectionHosts /\ calls = <<>>

(* connection_type: detect_connection_type(&name).unwrap_or_else(|| "Unknown".to_string()) *)
DetectConnection ==
    /\ Len(calls) < MaxCalls
    /\ calls' = Append(calls,
                       [out |-> Ok([detected        |-> detect_connection_type(host.display_name),
                                    connection_type |-> ConnectionTypeOrUnknown(host.display_name)]),
                        log |-> <<>>])
    /\ UNCHANGED host

NextConnection == DetectConnection

SpecConnection == InitConnection /\ [][NextConnection]_vars

(* the fixed order of the classification: the words of each rank and the   *)
(* type the rank gives                                                     *)
ConnectionRanks ==
    << [words |-> {<<"h","d","m","i">>},               type |-> <<"H","D","M","I">>],
       [words |-> {<<"d","p">>, <<"d","i","s","p","l","a","y","p","o","r","t">>},  type |-> <<"D","i","s","p","l","a","y","P","o","r","t">>],
       [words |-> {<<"v","g","a">>},                type |-> <<"V","G","A">>],
       [words |-> {<<"d","v","i">>},                type |-> <<"D","V","I">>],
       [words |-> {<<"u","s","b">>},                type |-> <<"U","S","B","-","C">>],
       [words |-> {<<"l","v","d","s">>, <<"e","d","p">>},        type |-> <<"I","n","t","e","r","n","a","l">>] >>

RanksMatching(name) ==
    {r \in 1..Len(ConnectionRanks) : \E w \in ConnectionRanks[r].words : Mentions(name, w)}

(* C15: connection-type classification is a first match over the           *)
(* lower-cased display name in the order hdmi; dp or displayport; vga;     *)
(* dvi; usb; lvds or edp: the type is that of the first rank with a word   *)
(* the name contains, and with no such rank nothing is detected and the    *)
(* Display record stores "Unknown".                                        *)
C15_ConnectionFirstMatch ==
    \A n \in 1..Len(calls) :
        IF RanksMatching(host.display_name) = {}
        THEN /\ ~calls[n].out.val.detected.some
             /\ calls[n].out.val.connection_type = <<"U","n","k","n","o","w","n">>
        ELSE /\ calls[n].out.val.detected =
                   Some(ConnectionRanks[NthOf(RanksMatching(host.display_name), 1)].type)
             /\ calls[n].out.val.connection_type =
                   ConnectionRanks[NthOf(RanksMatching(host.display_name), 1)].type

(* a name matching two ranks was classified by the earlier one *)
C15_Witness ==
    /\ Len(calls) >= 1
    /\ host.display_name = <<"u","s","b","-","v","g","a">>
    /\ RanksMatching(host.display_name) = {3, 5}
    /\ calls[1].out.val.connection_type = <<"V","G","A">>

(* C16: a display whose name contains "edp" in any case, such as eDP-1,    *)
(* is given the connection type "Internal".                                *)
C16_EdpIsInternal ==
    \A n \in 1..Len(calls) :
        Mentions(host.display_name, <<"e","d","p">>) => calls[n].out.val.connection_type = <<"I","n","t","e","r","n","a","l">>

(***************************************************************************)
(* The distribution detector followed by the markup of its record          *)
(***************************************************************************)
(* pub fn get_distro_markup(&self), on the record the last call returned *)
GetDistroMarkup ==
    /\ Len(calls) < MaxCalls
    /\ Len(calls) >= 1
    /\ calls[Len(calls)].out.kind = "Ok"
    /\ calls' = Append(calls,
                       [out |-> [kind |-> "Markup", val |-> get_distro_markup(calls[Len(calls)].out.val)],
                        log |-> <<>>])
    /\ UNCHANGED host

NextDistro == DetectDynamic \/ GetDistroMarkup

SpecDistro == InitDynamic /\ [][NextDistro]_vars

(* the lines of os-release that assign `key`: the text before the first    *)
(* `=`, trimmed, is the key                                                *)
AssignsKey(line, key) ==
    \E p \in 1..Len(line) :
        /\ line[p] = "="
        /\ \A k \in 1..(p - 1) : line[k] # "="
        /\ Trim(SubSeq(line, 1, p - 1)) = key

LinesAssigning(lines, key) == {i \in 1..Len(lines) : AssignsKey(lines[i], key)}

(* the value of the last line assigning `key`: the text after its first    *)
(* `=`, trimmed and unquoted                                               *)
ValueOfLine(line) ==
    TrimMatches(Trim(SubSeq(line, (CHOOSE p \in 1..Len(line) :
                                       line[p] = "=" /\ \A k \in 1..(p - 1) : line[k] # "=") + 1,
                            Len(line))), "\"")

ValueOfKey(lines, key) ==
    ValueOfLine(lines[NthOf(LinesAssigning(lines, key), Cardinality(LinesAssigning(lines, key)))])

OsReleaseLines == Lines(host.os_release.content)

(* C17: distro detection from os-release.  distro_name is the NAME value   *)
(* and "Unknown Linux" when the key is absent, distro_version is the       *)
(* VERSION value and "Unknown Version" when absent, distro_codename is     *)
(* None exactly when the file has no VERSION_CODENAME key, and the markup  *)
(* of a record without codename is the bold name span alone, with no       *)
(* codename text.                                                          *)
C17_DistroFromOsRelease ==
    \A n \in 1..Len(calls) :
        /\ calls[n].out.kind = "Ok" =>
              /\ calls[n].out.val.distro_name =
                    IF LinesAssigning(OsReleaseLines, <<"N","A","M","E">>) = {} THEN <<"U","n","k","n","o","w","n"," ","L","i","n","u","x">>
                    ELSE ValueOfKey(OsReleaseLines, <<"N","A","M","E">>)
              /\ calls[n].out.val.distro_version =
                    IF LinesAssigning(OsReleaseLines, <<"V","E","R","S","I","O","N">>) = {} THEN <<"U","n","k","n","o","w","n"," ","V","e","r","s","i","o","n">>
                    ELSE ValueOfKey(OsReleaseLines, <<"V","E","R","S","I","O","N">>)
              /\ ~calls[n].out.val.distro_codename.some
                    <=> LinesAssigning(OsReleaseLines, <<"V","E","R","S","I","O","N","_","C","O","D","E","N","A","M","E">>) = {}
              /\ calls[n].out.val.distro_codename.some =>
                    calls[n].out.val.distro_codename.v = ValueOfKey(OsReleaseLines, <<"V","E","R","S","I","O","N","_","C","O","D","E","N","A","M","E">>)
        /\ (calls[n].out.kind = "Markup" /\ ~calls[n - 1].out.val.distro_codename.some) =>
              calls[n].out.val =
                  <<"<","s","p","a","n"," ","f","o","n","t","-","s","i","z","e","=","'","x","x","-","l","a","r","g","e","'",">","<","s","p","a","n"," ","f","o","n","t","-","w","e","i","g","h","t","=","'","b","o","l","d","'",">">>
                      \o calls[n - 1].out.val.distro_name \o <<"<","/","s","p","a","n",">","<","/","s","p","a","n",">">>

(* os-release holds NAME="Ubuntu" and no VERSION_CODENAME; the record has  *)
(* no codename and its markup was generated                                *)
C17_Witness ==
    /\ Len(calls) = 2
    /\ host.os_release.readable
    /\ LinesAssigning(OsReleaseLines, <<"V","E","R","S","I","O","N","_","C","O","D","E","N","A","M","E">>) = {}
    /\ calls[1].out.kind = "Ok"
    /\ calls[1].out.val.distro_name = <<"U","b","u","n","t","u">>
    /\ ~calls[1].out.val.distro_codename.some
    /\ calls[2].out.kind = "Markup"
    /\ calls[2].out.val = <<"<","s","p","a","n"," ","f","o","n","t","-","s","i","z","e","=","'","x","x","-","l","a","r","g","e","'",">","<","s","p","a","n"," ","f","o","n","t","-","w","e","i","g","h","t","=","'","b","o","l","d","'",">","U","b","u","n","t","u","<","/","s","p","a","n",">","<","/","s","p","a","n",">">>

(***************************************************************************)
(* The four detectors over hosts whose commands carry an exit status       *)
(***************************************************************************)
(* std::process::Output of a spawned command: stdout and the exit status *)
Exited(output, code) ==
    IF output.spawned
    THEN [f \in DOMAIN output \cup {"status"} |-> IF f = "status" THEN code ELSE output[f]]
    ELSE output

CommandFields(h) == {f \in DOMAIN h : "spawned" \in DOMAIN h[f]}

(* the host h in which the commands of `nonzero` exit with status 1 and    *)
(* the others with status 0, stdout unchanged                              *)
WithExits(h, nonzero) ==
    [f \in DOMAIN h |->
        IF f \in CommandFields(h) THEN Exited(h[f], IF f \in nonzero THEN 1 ELSE 0) ELSE h[f]]

(* no command, one command, or every command exits nonzero *)
ExitPatterns(h) == {{}, CommandFields(h)} \cup {{f} : f \in CommandFields(h)}

SystemSample ==
    {h \in SystemHosts :
        /\ h.free.spawned
        /\ h.dmidecode_baseboard.spawned
        /\ h.machine_id.readable
        /\ Len(h.machine_id.content) > 8
        /\ h.env_hostname = None}

DynamicSample ==
    {h \in DynamicHosts : h.os_release.readable => Len(Lines(h.os_release.content)) = 1}

DisplaySample == [xrandr : XrandrPlain, wlr : WlrPlain, drm : DrmPlain]

StorageSample ==
    {h \in StorageHosts :
        /\ h.lsblk_json.spawned =>
              /\ "json" \in DOMAIN h.lsblk_json
              /\ h.lsblk_json.value.o.blockdevices.t = "arr"
              /\ Len(h.lsblk_json.value.o.blockdevices.a) \in {1, 2}
              /\ Len(h.lsblk_json.value.o.blockdevices.a) = 2 =>
                    h.lsblk_json.value.o.blockdevices.a[1] # h.lsblk_json.value.o.blockdevices.a[2]
        /\ h.lsblk_text.spawned => Len(Lines(h.lsblk_text.stdout)) = 2}

HostsOf(detector, sample) ==
    UNION {{[detector |-> detector, env |-> WithExits(h, p)] : p \in ExitPatterns(h)} : h \in sample}

DetectorHosts ==
    HostsOf("SystemInfo", SystemSample)
        \cup HostsOf("DynamicSystemInfo", DynamicSample)
        \cup HostsOf("DisplayInfo", DisplaySample)
        \cup HostsOf("StorageInfo", StorageSample)

InitDetectors == host \in DetectorHosts /\ calls = <<>>

CallSystemInfo ==
    /\ host.detector = "SystemInfo"
    /\ Len(calls) < MaxCalls
    /\ calls' = Append(calls, SystemInfo_detect(host.env))
    /\ UNCHANGED host

CallDynamicSystemInfo ==
    /\ host.detector = "DynamicSystemInfo"
    /\ Len(calls) < MaxCalls
    /\ calls' = Append(calls, DynamicSystemInfo_detect(host.env))
    /\ UNCHANGED host

CallDisplayInfo ==
    /\ host.detector = "DisplayInfo"
    /\ Len(calls) < MaxCalls
    /\ calls' = Append(calls, DisplayInfo_detect(host.env))
    /\ UNCHANGED host

CallStorageInfo ==
    /\ host.detector = "StorageInfo"
    /\ Len(calls) < MaxCalls
    /\ calls' = Append(calls, StorageInfo_detect(host.env))
    /\ UNCHANGED host

NextDetectors == CallSystemInfo \/ CallDynamicSystemInfo \/ CallDisplayInfo \/ CallStorageInfo

SpecDetectors == InitDetectors /\ [][NextDetectors]_vars

RunDetector(detector, env) ==
    CASE detector = "SystemInfo" -> SystemInfo_detect(env)
      [] detector = "DynamicSystemInfo" -> DynamicSystemInfo_detect(env)
      [] detector = "DisplayInfo" -> DisplayInfo_detect(env)
      [] detector = "StorageInfo" -> StorageInfo_detect(env)

Unavailable(source) ==
    \/ "spawned" \in DOMAIN source /\ ~source.spawned
    \/ "readable" \in DOMAIN source /\ ~source.readable

(* C18: command results do not depend on the exit status.  Whatever        *)
(* commands exit nonzero, every detector call returns what it returns on   *)
(* the host where the same commands print the same stdout and exit zero,   *)
(* after consulting the same sources; and a call returns an error only on  *)
(* a host where some executable could not be spawned or some file could    *)
(* not be read, never because of an exit status.                           *)
C18_ExitStatusIgnored ==
    \A n \in 1..Len(calls) :
        /\ calls[n] = RunDetector(host.detector, WithExits(host.env, {}))
        /\ calls[n].out.kind = "Err" => \E f \in DOMAIN host.env : Unavailable(host.env[f])

(* dmidecode exited with status 1 after printing a serial number, and the  *)
(* serial number was taken from its stdout                                 *)
C18_Witness ==
    /\ Len(calls) >= 1
    /\ host.detector = "SystemInfo"
    /\ host.env.dmidecode_baseboard.status = 1
    /\ calls[1].out.kind = "Ok"
    /\ calls[1].out.val.serial_number = <<"P","F","1","2">>

FastfetchUsed(h) == IF h.fastfetch_json.spawned THEN h.fastfetch_json ELSE h.fastfetch_plain

(* Title.result.hostName of the fastfetch JSON output, where present *)
TitleHostNames(h) ==
    IF /\ FastfetchUsed(h).spawned
       /\ "json" \in DOMAIN FastfetchUsed(h)
       /\ FastfetchUsed(h).value.t = "arr"
    THEN {item.o.result.o.hostName.s :
             item \in {it \in {FastfetchUsed(h).value.a[i] : i \in 1..Len(FastfetchUsed(h).value.a)} :
                          /\ it.o.type = JStr(<<"T","i","t","l","e">>)
                          /\ "hostName" \in DOMAIN it.o.result.o}}
    ELSE {}

(* C20: hostname chain.  The hostname of a returned record is              *)
(* Title.result.hostName of the fastfetch JSON output when that is         *)
(* present, otherwise the value of $HOSTNAME when it is set, otherwise the *)
(* trimmed output of `hostname`, otherwise "Unknown Host"; $HOSTNAME is    *)
(* read only when fastfetch gave no Title host name, and `hostname` is run *)
(* only when in addition $HOSTNAME is unset.                               *)
C20_HostnameChain ==
    \A n \in 1..Len(calls) :
        calls[n].out.kind = "Ok" =>
            /\ calls[n].out.val.hostname \in
                  IF TitleHostNames(host) # {} THEN TitleHostNames(host)
                  ELSE IF host.env_hostname.some THEN {host.env_hostname.v}
                  ELSE IF host.hostname_cmd.spawned THEN {Trim(host.hostname_cmd.stdout)}
                  ELSE {<<"U","n","k","n","o","w","n"," ","H","o","s","t">>}
            /\ Consulted(calls[n], "HOSTNAME") <=> TitleHostNames(host) = {}
            /\ Consulted(calls[n], "hostname") <=>
                  (TitleHostNames(host) = {} /\ ~host.env_hostname.some)

(* the CPU line of the fastfetch plain-text output, where it has one *)
PlainCpu(h) ==
    IF h.fastfetch_plain.spawned
       /\ "stdout" \in DOMAIN h.fastfetch_plain
       /\ K_CPU \in DOMAIN parse_fastfetch_text(h.fastfetch_plain.stdout).val
    THEN Some(parse_fastfetch_text(h.fastfetch_plain.stdout).val[K_CPU])
    ELSE None

(* the fastfetch JSON source ran, printed valid JSON and gave no CPU value *)
JsonWithoutCpu(h) ==
    /\ h.fastfetch_json.spawned
    /\ "json" \in DOMAIN h.fastfetch_json
    /\ get_fastfetch_info(h).out.kind = "Ok"
    /\ K_CPU \notin DOMAIN get_fastfetch_info(h).out.val

(* C21: CPU chain.  When the fastfetch JSON output is valid JSON and gives *)
(* no CPU value, the cpu field of the returned record is taken from the    *)
(* `CPU:` line of the fastfetch plain-text output, and it is "Unknown CPU" *)
(* only when the plain-text output has no CPU line either.                 *)
C21_CpuFallsBackToText ==
    \A n \in 1..Len(calls) :
        (calls[n].out.kind = "Ok" /\ JsonWithoutCpu(host)) =>
            /\ PlainCpu(host).some => calls[n].out.val.cpu = ReorderCpu(PlainCpu(host).v)
            /\ calls[n].out.val.cpu = <<"U","n","k","n","o","w","n"," ","C","P","U">> => ~PlainCpu(host).some

(* What each serial-number source yields, read off the host *)
UsableValue(v) == IF v = <<>> \/ v = <<"N","o","t"," ","S","p","e","c","i","f","i","e","d">> THEN None ELSE Some(v)

SerialLinesOf(lines) ==
    {i \in 1..Len(lines) :
        /\ HasPrefix(Trim(lines[i]), <<"S","e","r","i","a","l"," ","N","u","m","b","e","r",":">>)
        /\ Len(Split(Trim(lines[i]), ":")) >= 2
        /\ UsableValue(Trim(Split(Trim(lines[i]), ":")[2])).some}

DmidecodeYield(h) ==
    IF h.dmidecode_baseboard.spawned /\ SerialLinesOf(Lines(h.dmidecode_baseboard.stdout)) # {}
    THEN Some(Trim(Split(Trim(Lines(h.dmidecode_baseboard.stdout)[
                       NthOf(SerialLinesOf(Lines(h.dmidecode_baseboard.stdout)), 1)]), ":")[2]))
    ELSE None

FileYield(f) == IF f.readable THEN UsableValue(Trim(f.content)) ELSE None

LastToken(line) == SplitWhitespace(line)[Len(SplitWhitespace(line))]

LshwLinesOf(lines) ==
    {i \in 1..Len(lines) :
        /\ Contains(lines[i], <<"c","o","m","p","u","t","e","r">>) \/ Contains(lines[i], <<"s","y","s","t","e","m">>)
        /\ Len(SplitWhitespace(lines[i])) > 2
        /\ Len(LastToken(lines[i])) > 4
        /\ ~Contains(LastToken(lines[i]), <<"c","o","m","p","u","t","e","r">>)}

LshwYield(h) ==
    IF h.lshw_system.spawned /\ LshwLinesOf(Lines(h.lshw_system.stdout)) # {}
    THEN Some(LastToken(Lines(h.lshw_system.stdout)[NthOf(LshwLinesOf(Lines(h.lshw_system.stdout)), 1)]))
    ELSE None

MachineIdYield(h) ==
    IF h.machine_id.readable /\ Trim(h.machine_id.content) # <<>>
    THEN Some(<<"m","a","c","h","i","n","e","-">> \o FirstChars(Trim(h.machine_id.content), 8))
    ELSE None

SerialOrder ==
    << Cmd("dmidecode --type baseboard", <<>>), Rd("/sys/class/dmi/id/board_serial", <<>>),
       Rd("/sys/class/dmi/id/product_serial", <<>>), Cmd("lshw -class system -short", <<>>),
       Rd("/etc/machine-id", <<>>) >>

SerialYields(h) ==
    << DmidecodeYield(h), FileYield(h.board_serial), FileYield(h.product_serial),
       LshwYield(h), MachineIdYield(h) >>

Yielding(h) == {k \in 1..5 : SerialYields(h)[k].some}

(* the machine id is reached and is too short to cut 8 characters from *)
ShortMachineId(h) ==
    /\ Yielding(h) # {}
    /\ NthOf(Yielding(h), 1) = 5
    /\ Len(Trim(h.machine_id.content)) < 8

FreeMemLines(lines) ==
    {i \in 1..Len(lines) : HasPrefix(lines[i], <<"M","e","m",":">>) /\ Len(SplitWhitespace(lines[i])) >= 2}

FreeTotal(h) ==
    IF h.free.spawned /\ FreeMemLines(Lines(h.free.stdout)) # {}
    THEN Some(SplitWhitespace(Lines(h.free.stdout)[NthOf(FreeMemLines(Lines(h.free.stdout)), 1)])[2])
    ELSE None

(* C23: memory chain.  get_memory_info never returns an error.  When       *)
(* /proc/meminfo is readable and MemTotal parses to a positive number the  *)
(* description is the size built from it and `free -h` is not run; when    *)
(* meminfo is unreadable, has no MemTotal line, or MemTotal is zero or     *)
(* unparseable, the description is the second column of the `Mem:` line of *)
(* `free -h` followed by "B RAM", and "Unknown Memory" when `free` gives   *)
(* no such line or cannot be spawned.                                      *)
C23_MemoryChain ==
    \A n \in 1..Len(calls) :
        /\ calls[n].out.kind = "Ok"
        /\ IF host.meminfo.memtotal_kb > 0
           THEN /\ ~Consulted(calls[n], "free -h")
                /\ \/ SizeIs(calls[n].out.val, Find(calls[n].out.val, "."),
                             host.meminfo.memtotal_kb, 1024 * 1024, <<" ","G","B">>)
                   \/ SizeIs(calls[n].out.val, Find(calls[n].out.val, "."),
                             host.meminfo.memtotal_kb, 1024 * 1024 * 1024, <<" ","T","B">>)
           ELSE /\ Consulted(calls[n], "free -h")
                /\ FreeTotal(host).some => calls[n].out.val = FreeTotal(host).v \o <<"B"," ","R","A","M">>
                /\ ~FreeTotal(host).some => calls[n].out.val = <<"U","n","k","n","o","w","n"," ","M","e","m","o","r","y">>

(* /proc/meminfo reads `MemTotal: 0 kB` and the description came from the  *)
(* `Mem:` line of `free -h`                                                *)
C23_Witness ==
    /\ Len(calls) >= 1
    /\ host.meminfo.readable
    /\ Contains(host.meminfo.content, <<"M","e","m","T","o","t","a","l",":">>)
    /\ host.meminfo.memtotal_kb = 0
    /\ calls[1].out = Ok(<<"1","5","G","i","B"," ","R","A","M">>)

(* the temperature lines of the two tools *)
NvmeTempLines(h) ==
    IF h.nvme_smart_log.spawned
    THEN {i \in 1..Len(Lines(h.nvme_smart_log.stdout)) :
             /\ Contains(Lines(h.nvme_smart_log.stdout)[i], <<"t","e","m","p","e","r","a","t","u","r","e">>)
             /\ Contains(Lines(h.nvme_smart_log.stdout)[i], <<":">>)}
    ELSE {}

SmartctlTempLines(h) ==
    IF h.smartctl_A.spawned
    THEN {i \in 1..Len(Lines(h.smartctl_A.stdout)) :
             /\ Contains(Lines(h.smartctl_A.stdout)[i], <<"T","e","m","p","e","r","a","t","u","r","e","_","C","e","l","s","i","u","s">>)
             /\ Len(SplitWhitespace(Lines(h.smartctl_A.stdout)[i])) >= 10}
    ELSE {}

SmartctlColumn10(h) ==
    SplitWhitespace(Lines(h.smartctl_A.stdout)[NthOf(SmartctlTempLines(h), 1)])[10]

(* C24: device-temperature chain.  For an nvme device the temperature      *)
(* comes from `nvme smart-log`, and when that gives no temperature line or *)
(* nvme cannot be spawned `smartctl -A` is consulted as the fallback; the  *)
(* smartctl value is the 10th column of the Temperature_Celsius line; the  *)
(* temperature of a device is absent only when every applicable source     *)
(* fails.                                                                  *)
C24_TemperatureChain ==
    \A n \in 1..Len(calls) :
        calls[n].out.kind = "Ok" =>
            \A k \in 1..Len(calls[n].out.val.devices) :
                IF HasPrefix(calls[n].out.val.devices[k].name, <<"/","d","e","v","/","n","v","m","e">>)
                THEN /\ NvmeTempLines(host) # {} => calls[n].out.val.devices[k].temperature.some
                     /\ (NvmeTempLines(host) = {} /\ SmartctlTempLines(host) # {}) =>
                           /\ calls[n].out.val.devices[k].temperature.some
                           /\ HasPrefix(calls[n].out.val.devices[k].temperature.v, SmartctlColumn10(host))
                     /\ ~calls[n].out.val.devices[k].temperature.some =>
                           (NvmeTempLines(host) = {} /\ SmartctlTempLines(host) = {})
                ELSE /\ SmartctlTempLines(host) # {} =>
                           /\ calls[n].out.val.devices[k].temperature.some
                           /\ HasPrefix(calls[n].out.val.devices[k].temperature.v, SmartctlColumn10(host))
                     /\ ~calls[n].out.val.devices[k].temperature.some => SmartctlTempLines(host) = {}

(* C25: no retry.  Within one detection call every source, a program with  *)
(* its argument list or a file path, is invoked or read at most once, on   *)
(* the fallback paths too: no two entries of the sources a call consulted  *)
(* are the same.                                                           *)
C25_NoRetry ==
    \A n \in 1..Len(calls) :
        \A i \in 1..Len(calls[n].log) : \A j \in 1..Len(calls[n].log) :
            calls[n].log[i] = calls[n].log[j] => i = j

(* StorageInfo::detect went through the plain-text lsblk fallback: both    *)
(* lsblk invocations, a per-device tool and df were run                    *)
C25_Witness ==
    /\ Len(calls) >= 1
    /\ host.detector = "StorageInfo"
    /\ Consulted(calls[1], "lsblk -d -o NAME,SIZE,TYPE,MODEL,SERIAL --json")
    /\ Consulted(calls[1], "lsblk -d -o NAME,SIZE,TYPE,MODEL")
    /\ Consulted(calls[1], "smartctl -H")
    /\ Consulted(calls[1], "df -h -T")

(* the text after the first `=` of a line, trimmed *)
RawValueOfLine(line) ==
    Trim(SubSeq(line, (CHOOSE p \in 1..Len(line) :
                           line[p] = "=" /\ \A k \in 1..(p - 1) : line[k] # "=") + 1,
                Len(line)))

(* one layer of surrounding double quotes removed *)
StripOneLayer(v) ==
    IF Len(v) >= 2 /\ v[1] = "\"" /\ v[Len(v)] = "\"" THEN SubSeq(v, 2, Len(v) - 1) ELSE v

LastValueOfKey(lines, key) ==
    StripOneLayer(RawValueOfLine(
        lines[NthOf(LinesAssigning(lines, key), Cardinality(LinesAssigning(lines, key)))]))

(* C26: the os-release parser splits each line on its first `=`, trims key *)
(* and value, removes exactly one layer of surrounding double quotes from  *)
(* the value (`""x""` keeps the inner pair), and a repeated key keeps the  *)
(* value of its last occurrence; seen through the NAME, VERSION and        *)
(* VERSION_CODENAME fields of the returned record.                         *)
C26_OsReleaseParser ==
    \A n \in 1..Len(calls) :
        calls[n].out.kind = "Ok" =>
            /\ LinesAssigning(OsReleaseLines, <<"N","A","M","E">>) # {} =>
                  calls[n].out.val.distro_name = LastValueOfKey(OsReleaseLines, <<"N","A","M","E">>)
            /\ LinesAssigning(OsReleaseLines, <<"V","E","R","S","I","O","N">>) # {} =>
                  calls[n].out.val.distro_version = LastValueOfKey(OsReleaseLines, <<"V","E","R","S","I","O","N">>)
            /\ LinesAssigning(OsReleaseLines, <<"V","E","R","S","I","O","N","_","C","O","D","E","N","A","M","E">>) # {} =>
                  calls[n].out.val.distro_codename = Some(LastValueOfKey(OsReleaseLines, <<"V","E","R","S","I","O","N","_","C","O","D","E","N","A","M","E">>))

(* the entries of /sys/class/drm that are connectors reporting `connected` *)
ConnectedEntries(h) ==
    IF h.drm.exists /\ h.drm.readable
    THEN {i \in 1..Len(h.drm.entries) :
             /\ HasPrefix(h.drm.entries[i].name, <<"c","a","r","d">>)
             /\ Contains(h.drm.entries[i].name, <<"-">>)
             /\ h.drm.entries[i].status.readable
             /\ Trim(h.drm.entries[i].status.content) = <<"c","o","n","n","e","c","t","e","d">>}
    ELSE {}

(* C27: DRM fallback path.  When the displays come from /sys/class/drm or  *)
(* from the placeholder, exactly one Display is primary and it is the      *)
(* first of the sequence; there is one record per entry whose trimmed      *)
(* status is exactly `connected`, in directory order, and entries with any *)
(* other status produce none (the placeholder stands in when there is no   *)
(* connected entry).                                                       *)
C27_DrmPrimaryFirst ==
    \A n \in 1..Len(calls) :
        Consulted(calls[n], "/sys/class/drm") =>
            /\ calls[n].out.kind = "Ok"
            /\ Len(calls[n].out.val.displays) =
                  IF ConnectedEntries(host) = {} THEN 1 ELSE Cardinality(ConnectedEntries(host))
            /\ calls[n].out.val.displays[1].is_primary
            /\ \A k \in 2..Len(calls[n].out.val.displays) : ~calls[n].out.val.displays[k].is_primary
            /\ ConnectedEntries(host) # {} =>
                  \A k \in 1..Len(calls[n].out.val.displays) :
                      calls[n].out.val.displays[k].name =
                          Split(host.drm.entries[NthOf(ConnectedEntries(host), k)].name, "-")[2]

(* /sys/class/drm held two connected connectors; two displays came back,   *)
(* the first one primary                                                   *)
C27_Witness ==
    /\ Len(calls) >= 1
    /\ Consulted(calls[1], "/sys/class/drm")
    /\ Len(host.drm.entries) = 2
    /\ Cardinality(ConnectedEntries(host)) = 2
    /\ Len(calls[1].out.val.displays) = 2
    /\ calls[1].out.val.displays[1].is_primary
    /\ ~calls[1].out.val.displays[2].is_primary
    /\ calls[1].out.val.displays[1].name # calls[1].out.val.displays[2].name

(* the rows of `lsblk --list` whose first column, the mountpoint, is       *)
(* exactly `/`: the line starts with `/` followed by white space           *)
RootRows(lines) ==
    {i \in 1..Len(lines) :
        /\ Len(lines[i]) >= 2
        /\ lines[i][1] = "/"
        /\ lines[i][2] \in WS
        /\ Len(SplitWhitespace(lines[i])) >= 2}

RECURSIVE JoinedFrom(_, _)
JoinedFrom(tokens, k) ==
    IF k > Len(tokens) THEN <<>>
    ELSE IF k = Len(tokens) THEN tokens[k]
    ELSE tokens[k] \o <<" ">> \o JoinedFrom(tokens, k + 1)

(* the label column(s) of a row with a label, otherwise the device name *)
RowDescription(line) ==
    IF Len(SplitWhitespace(line)) >= 3 THEN JoinedFrom(SplitWhitespace(line), 3)
    ELSE SplitWhitespace(line)[2]

(* C28: startup disk.  The startup_disk field is the description of the    *)
(* first lsblk row whose mountpoint column is exactly `/`, its label when  *)
(* it has one and its device name otherwise, and "Unknown" when no row has *)
(* mountpoint `/`; a row with an empty mountpoint column is never taken    *)
(* for the root row.                                                       *)
C28_StartupDisk ==
    \A n \in 1..Len(calls) :
        calls[n].out.kind = "Ok" =>
            calls[n].out.val.startup_disk =
                IF RootRows(Lines(host.lsblk_list.stdout)) = {} THEN <<"U","n","k","n","o","w","n">>
                ELSE RowDescription(Lines(host.lsblk_list.stdout)[
                         NthOf(RootRows(Lines(host.lsblk_list.stdout)), 1)])

(* lsblk listed a row without mountpoint, /boot and then the root row with *)
(* the label "root fs", which was returned                                 *)
C28_Witness ==
    /\ Len(calls) >= 1
    /\ calls[1].out.kind = "Ok"
    /\ Contains(host.lsblk_list.stdout, <<"/","b","o","o","t">>)
    /\ calls[1].out.val.startup_disk = <<"r","o","o","t"," ","f","s">>

(* C29: every Filesystem returned by detect_filesystems has usage_percent  *)
(* between 0 and 100 inclusive (the model holds it in thousandths), for    *)
(* every df output, a Use% column that is not a number giving 0; and a row *)
(* with fewer than 7 columns produces no record.                           *)
C29_UsagePercentInRange ==
    \A n \in 1..Len(calls) :
        calls[n].out.kind = "Ok" =>
            /\ \A i \in 1..Len(calls[n].out.val.filesystems) :
                   /\ calls[n].out.val.filesystems[i].usage_percent >= 0
                   /\ calls[n].out.val.filesystems[i].usage_percent <= 100 * 1000
            /\ Len(calls[n].out.val.filesystems)
                   <= Cardinality({k \in 1..Len(Skip1(Lines(host.df.stdout))) :
                          Len(SplitWhitespace(Skip1(Lines(host.df.stdout))[k])) >= 7})

(* C30: no sentinel in the memory description.  When MemTotal was parsed   *)
(* the string returned by get_memory_info never contains the word          *)
(* "Unknown", whatever `dmidecode --type memory` prints: a Speed or Type   *)
(* value of "Unknown" is skipped and the next value is used.               *)
C30_NoUnknownInMemory ==
    \A n \in 1..Len(calls) :
        (host.meminfo.memtotal_kb > 0 /\ calls[n].out.kind = "Ok")
            => ~Contains(calls[n].out.val, <<"U","n","k","n","o","w","n">>)

=============================================================================
